---- MODULE Spec2Model ----
(***************************************************************************)
(* Model of the voice k-NN screening service                               *)
(* (src/src/services/voiceKnnModel.ts): the corpus parser, the             *)
(* normalisation statistics, the k-NN vote, and the process-wide lazily    *)
(* populated model cache with its asynchronous callers.                    *)
(*                                                                         *)
(* Text is modelled as a sequence of tokens: "," "\n" "\r" " " are the     *)
(* characters the parser looks at, every other token is a word (a column   *)
(* name or a numeric literal) that the parser never looks inside.          *)
(* Numbers are integers in tenths (the literal "0.5" is 5, "1" is 10).     *)
(***************************************************************************)
EXTENDS Integers, Sequences, FiniteSets, TLC

\* ------------------------------------------------------------------ bounds

\* how many of the 16 feature columns the model carries
NumFeatures == 2
\* longest corpus text, in lines, that the single-load specification enumerates
MaxLines == 3
\* train / predict calls of one behaviour
MaxCalls == 2
\* resets of one behaviour
MaxResets == 1
\* largest reference set and dataset the classifier is applied to on its own
MaxSamples == 3
\* longest waveform, in samples, the signal conditioner is applied to
MaxSignal == 4
\* most analysis frames of a waveform given to the feature extraction
MaxFrames == 6
\* longest amplitude sequence the perturbation quotient is applied to
MaxAmplitudes == 12
\* calls of one behaviour in which a failed load is retried
MaxRetryCalls == 3
\* recordings of one session of the voice capture modal
MaxRecordings == 2
\* clicks on Re-run Voice Screening in one session
MaxReruns == 1
\* seconds the interval timer of a recording is followed for
MaxTicks == 31

\* ------------------------------------------------------------ the constants

AllFeatureColumns ==
  << "meanPeriodPulses", "stdDevPeriodPulses", "locPctJitter", "locAbsJitter",
     "rapJitter", "ppq5Jitter", "ddpJitter", "locShimmer", "locDbShimmer",
     "apq3Shimmer", "apq5Shimmer", "apq11Shimmer", "ddaShimmer",
     "meanAutoCorrHarmonicity", "meanNoiseToHarmHarmonicity",
     "meanHarmToNoiseHarmonicity" >>

\* FEATURE_COLUMNS, cut to its first NumFeatures names
FEATURE_COLUMNS == SubSeq(AllFeatureColumns, 1, NumFeatures)

FeatureKey == {FEATURE_COLUMNS[i] : i \in 1..NumFeatures}

Null == [null |-> TRUE]

\* a JavaScript number: a value in tenths, or NaN
Number(v) == [nan |-> FALSE, value |-> v]
NaN == [nan |-> TRUE, value |-> 0]

\* ------------------------------------------------------------ text helpers

\* the characters String.prototype.trim removes
IsSpace(t) == t \in {" ", "\n", "\r"}

RECURSIVE TrimStart(_)
TrimStart(s) ==
  IF s # <<>> /\ IsSpace(Head(s)) THEN TrimStart(Tail(s)) ELSE s

RECURSIVE TrimEnd(_)
TrimEnd(s) ==
  IF s # <<>> /\ IsSpace(s[Len(s)]) THEN TrimEnd(SubSeq(s, 1, Len(s) - 1)) ELSE s

\* String.prototype.trim
Trim(s) == TrimEnd(TrimStart(s))

RECURSIVE SplitAcc(_, _, _, _)
SplitAcc(s, sep, cur, acc) ==
  IF s = <<>> THEN Append(acc, cur)
  ELSE IF Head(s) = sep THEN SplitAcc(Tail(s), sep, <<>>, Append(acc, cur))
  ELSE SplitAcc(Tail(s), sep, Append(cur, Head(s)), acc)

\* String.prototype.split(sep) for a one-character separator
Split(s, sep) == SplitAcc(s, sep, <<>>, <<>>)

\* the optional "\r" of /\r?\n/, which goes with the separator
DropCR(line) ==
  IF line # <<>> /\ line[Len(line)] = "\r" THEN SubSeq(line, 1, Len(line) - 1) ELSE line

\* split(/\r?\n/)
SplitLines(s) ==
  LET parts == Split(s, "\n") IN
  [i \in 1..Len(parts) |-> IF i < Len(parts) THEN DropCR(parts[i]) ELSE parts[i]]

\* Array.prototype.indexOf: 0-based, -1 when absent
IndexOf(seq, x) ==
  IF \E i \in 1..Len(seq) : seq[i] = x
  THEN (CHOOSE i \in 1..Len(seq) : seq[i] = x /\ \A j \in 1..(i - 1) : seq[j] # x) - 1
  ELSE -1

\* a search for the last occurrence that stops at the first
LastIndexOf_first(seq, x) == IndexOf(seq, x)

\* Array.prototype.lastIndexOf: 0-based, -1 when absent
LastIndexOf(seq, x) ==
  IF \E i \in 1..Len(seq) : seq[i] = x
  THEN (CHOOSE i \in 1..Len(seq) : seq[i] = x /\ \A j \in (i + 1)..Len(seq) : seq[j] # x) - 1
  ELSE -1

\* the numeric literals of the model and their values, in tenths; the small
\* end of the scale is compressed: 1e-7 is one unit, below the two units of 1e-6
NumberValue ==
  [t \in {"0", "1e-7", "0.4", "0.5", "1", "2", "3"} |->
     CASE t = "0" -> 0 [] t = "1e-7" -> 1 [] t = "0.4" -> 4 [] t = "0.5" -> 5
       [] t = "1" -> 10 [] t = "2" -> 20 [] t = "3" -> 30]

\* Number.parseFloat: skips leading white space, reads the number the text
\* starts with, and is NaN when there is none
ParseFloat(cell) ==
  LET rest == TrimStart(cell) IN
  IF rest # <<>> /\ Head(rest) \in DOMAIN NumberValue THEN Number(NumberValue[Head(rest)])
  ELSE NaN

\* ----------------------------------------------------------------- parser

NoError == [type |-> "none", key |-> "", row |-> 0, columns |-> 0, expected |-> 0]

\* new Error(message), by the message's template and its interpolated values
Error(type) == [NoError EXCEPT !.type = type]

Ok(samples) == [ok |-> TRUE, samples |-> samples, error |-> NoError]
Throw(error) == [ok |-> FALSE, samples |-> <<>>, error |-> error]

\* the header search loop: shifts rows off the front until one is a header
RECURSIVE FindHeader(_)
FindHeader(rows) ==
  IF rows = <<>> THEN [found |-> FALSE, header |-> <<>>, rows |-> <<>>]
  ELSE LET candidate == Head(rows)
           cells == Split(candidate, ",")
       IN IF /\ candidate # <<>>
             /\ \E i \in 1..Len(cells) : Trim(cells[i]) # <<>>
             /\ \E i \in 1..Len(cells) : cells[i] = <<"class">>
          THEN [found |-> TRUE, header |-> candidate, rows |-> Tail(rows)]
          ELSE FindHeader(Tail(rows))

\* header.split(',').map(column => column.trim())
HeaderColumns(header) ==
  LET cells == Split(header, ",") IN [i \in 1..Len(cells) |-> Trim(cells[i])]

\* parseCsvDataset without its test for the required columns
MissingFeatureColumn_none(headers) == ""

\* the first required column the header lacks, "" when it has them all
MissingFeatureColumn(headers) ==
  IF \E i \in 1..NumFeatures : IndexOf(headers, <<FEATURE_COLUMNS[i]>>) = -1
  THEN FEATURE_COLUMNS[CHOOSE i \in 1..NumFeatures :
         /\ IndexOf(headers, <<FEATURE_COLUMNS[i]>>) = -1
         /\ \A j \in 1..(i - 1) : IndexOf(headers, <<FEATURE_COLUMNS[j]>>) # -1]
  ELSE ""

\* the row number a malformed row is reported with
ReportedRow(rowIndex) == rowIndex + 2

\* array[index], 0-based; outside the array it is undefined, which parseFloat
\* reads as the text "undefined"
At(array, index) ==
  IF index >= 0 /\ index < Len(array) THEN array[index + 1] ELSE <<"undefined">>

\* one data row: its sample
RowSample(columns, headers, statusIndex) ==
  LET labelRaw == ParseFloat(At(columns, statusIndex))
      value(key) == ParseFloat(At(columns, IndexOf(headers, <<key>>)))
  IN [ features |-> [key \in FeatureKey |-> IF value(key).nan THEN 0 ELSE value(key).value],
       label |-> IF ~labelRaw.nan /\ labelRaw.value >= 5 THEN "Parkinsons" ELSE "Healthy" ]

\* rows.forEach((row, rowIndex) => ...), from rowIndex on, samples so far in acc
RECURSIVE ParseRows(_, _, _, _, _)
ParseRows(rows, rowIndex, headers, statusIndex, acc) ==
  IF rowIndex >= Len(rows) THEN Ok(acc)
  ELSE LET row == rows[rowIndex + 1]
           columns == Split(row, ",")
       IN IF Trim(row) = <<>>
          THEN ParseRows(rows, rowIndex + 1, headers, statusIndex, acc)
          ELSE IF Len(columns) # Len(headers)
          THEN Throw([Error("MalformedRow") EXCEPT !.row = ReportedRow(rowIndex),
                        !.columns = Len(columns), !.expected = Len(headers)])
          ELSE ParseRows(rows, rowIndex + 1, headers, statusIndex,
                         Append(acc, RowSample(columns, headers, statusIndex)))

\* parseCsvDataset without its test for an empty sample list
NoSamples_never(samples) == FALSE

\* !samples.length
NoSamples(samples) == Len(samples) = 0

parseCsvDataset(csvText) ==
  LET trimmed == Trim(csvText) IN
  IF trimmed = <<>> THEN Throw(Error("EmptyCsv"))
  ELSE
    LET found == FindHeader(SplitLines(trimmed)) IN
    IF ~found.found THEN Throw(Error("MissingHeader"))
    ELSE
      LET headers == HeaderColumns(found.header)
          statusIndex == LastIndexOf(headers, <<"class">>)
      IN IF statusIndex = -1 THEN Throw(Error("MissingClassColumn"))
         ELSE IF MissingFeatureColumn(headers) # ""
         THEN Throw([Error("MissingFeatureColumn") EXCEPT !.key = MissingFeatureColumn(headers)])
         ELSE
           LET parsed == ParseRows(found.rows, 0, headers, statusIndex, <<>>) IN
           IF ~parsed.ok THEN parsed
           ELSE IF NoSamples(parsed.samples) THEN Throw(Error("NoDataRows"))
           ELSE parsed

\* ------------------------------------------------- statistics and the vote
\* Real numbers are fixed-point integers: raw features and normalised values
\* in tenths, divisions rounded down, square roots rounded down.

RECURSIVE SumSeq(_)
SumSeq(values) == IF values = <<>> THEN 0 ELSE Head(values) + SumSeq(Tail(values))

Min(a, b) == IF a <= b THEN a ELSE b
Max(a, b) == IF a >= b THEN a ELSE b

\* the largest r in lo..hi with r * r <= n, by bisection
RECURSIVE SqrtBetween(_, _, _)
SqrtBetween(n, lo, hi) ==
  IF lo >= hi THEN lo
  ELSE LET mid == (lo + hi + 1) \div 2 IN
       IF mid * mid <= n THEN SqrtBetween(n, mid, hi) ELSE SqrtBetween(n, lo, mid - 1)

\* Math.sqrt, rounded down
Sqrt(n) == SqrtBetween(n, 0, Min(n, 46340))

mean(values) ==
  IF Len(values) = 0 THEN 0 ELSE SumSeq(values) \div Len(values)

standardDeviation(values, valueMean) ==
  IF Len(values) < 2 THEN 0
  ELSE LET variance ==
             SumSeq([i \in 1..Len(values) |->
                       (values[i] - valueMean) * (values[i] - valueMean)])
               \div (Len(values) - 1)
       IN Sqrt(Max(variance, 0))

\* the 1e-6 that replaces a zero standard deviation. It is two units of the
\* fixed-point scale, so that the scale has a positive number below it, as the
\* floating-point numbers have
StdFloor == 2

\* std || 1e-6
OrFloor(std) == IF std = 0 THEN StdFloor ELSE std

computeFeatureStats(samples) ==
  [key \in FeatureKey |->
     LET values == [i \in 1..Len(samples) |-> samples[i].features[key]]
         featureMean == mean(values)
     IN [mean |-> featureMean, std |-> OrFloor(standardDeviation(values, featureMean))]]

\* the normalised vector, in tenths, in FEATURE_COLUMNS order
normalise(features, stats) ==
  [i \in 1..NumFeatures |->
     LET key == FEATURE_COLUMNS[i] IN
     ((features[key] - stats[key].mean) * 10) \div OrFloor(stats[key].std)]

\* in tenths, like the vectors
euclideanDistance(vectorA, vectorB) ==
  Sqrt(SumSeq([i \in 1..Len(vectorA) |->
                 (vectorA[i] - vectorB[i]) * (vectorA[i] - vectorB[i])]))

\* the place of a neighbour in a list sorted by distance, after its equals
\* (Array.prototype.sort is stable)
RECURSIVE InsertByDistance(_, _)
InsertByDistance(sorted, n) ==
  IF sorted = <<>> THEN <<n>>
  ELSE IF n.distance < Head(sorted).distance THEN <<n>> \o sorted
  ELSE <<Head(sorted)>> \o InsertByDistance(Tail(sorted), n)

\* the neighbours left in the order of the samples
SortByDistance_unsorted(list) == list

RECURSIVE SortByDistance(_)
SortByDistance(list) ==
  IF list = <<>> THEN <<>>
  ELSE InsertByDistance(SortByDistance(SubSeq(list, 1, Len(list) - 1)), list[Len(list)])

\* the scale-mismatch threshold on the mean neighbour distance
MismatchDistance == 10

NoPrediction ==
  [label |-> "", probabilityOfParkinsons |-> [num |-> 0, den |-> 1],
   neighbourVotes |-> <<>>, k |-> 0]

\* an effective k without its lower bound
EffectiveK_noLowerBound(k, n) == Min(k, n)

\* Math.min(Math.max(k, 1), samples.length)
EffectiveK(k, n) == Min(Max(k, 1), n)

\* a guard that never sees a scale mismatch
ScaleMismatch_never(neighbours) == FALSE

\* avgDistance > 10, with the distances in tenths
ScaleMismatch(neighbours) ==
  SumSeq([i \in 1..Len(neighbours) |-> neighbours[i].distance])
    > MismatchDistance * 10 * Len(neighbours)

\* a vote that a tie gives to Healthy
LabelOf_strict(probability) ==
  IF 2 * probability.num > probability.den THEN "Parkinsons" ELSE "Healthy"

\* a label that ignores the probability
LabelOf_always(probability) == "Parkinsons"

\* probability >= 0.5 ? 'Parkinsons' : 'Healthy'
LabelOf(probability) ==
  IF 2 * probability.num >= probability.den THEN "Parkinsons" ELSE "Healthy"

\* the prediction, or the error thrown; a probability is the fraction num/den
predictFromSamples(vector, samples, k) ==
  IF Len(samples) = 0
  THEN [ok |-> FALSE, prediction |-> NoPrediction, error |-> Error("ModelNotReady")]
  ELSE
    LET effectiveK == EffectiveK(k, Len(samples))
        neighbours ==
          SubSeq(SortByDistance([i \in 1..Len(samples) |->
                   [label |-> samples[i].label,
                    distance |-> euclideanDistance(vector, samples[i].vector)]]),
                 1, effectiveK)
        scaleMismatch == ScaleMismatch(neighbours)
        parkinsons == Cardinality({i \in 1..Len(neighbours) : neighbours[i].label = "Parkinsons"})
        probability ==
          IF scaleMismatch THEN [num |-> parkinsons * 3, den |-> effectiveK * 10]
          ELSE [num |-> parkinsons, den |-> effectiveK]
    IN [ok |-> TRUE,
        prediction |->
          [label |-> LabelOf(probability),
           probabilityOfParkinsons |-> probability,
           neighbourVotes |-> neighbours,
           k |-> effectiveK],
        error |-> NoError]

\* a filter that leaves the tested sample in
Without_none(samples, index) == samples

\* samples.filter((_, sampleIndex) => sampleIndex !== index), index 1-based here
Without(samples, index) ==
  SubSeq(samples, 1, index - 1) \o SubSeq(samples, index + 1, Len(samples))

\* null, or the fraction correct/total
leaveOneOutAccuracy(samples, k) ==
  IF Len(samples) < 2 THEN Null
  ELSE [num |->
          Cardinality({index \in 1..Len(samples) :
            predictFromSamples(samples[index].vector, Without(samples, index), k)
              .prediction.label = samples[index].label}),
        den |-> Len(samples)]

\* samples.map((sample) => ({ label, vector: normalise(sample.features, stats) }))
normaliseSamples(samples, stats) ==
  [i \in 1..Len(samples) |->
     [label |-> samples[i].label, vector |-> normalise(samples[i].features, stats)]]

\* the metadata ensureModel stores for the normalised samples and its k
Metadata(normalised, k) ==
  [k |-> k,
   accuracy |-> leaveOneOutAccuracy(normalised, k),
   sampleCount |-> Len(normalised),
   features |-> FEATURE_COLUMNS]

\* ------------------------------------------------------------ the corpora

RECURSIVE JoinWith(_, _)
JoinWith(parts, sep) ==
  IF parts = <<>> THEN <<>>
  ELSE IF Len(parts) = 1 THEN parts[1]
  ELSE parts[1] \o <<sep>> \o JoinWith(Tail(parts), sep)

\* the header naming every feature column and the label column
HeaderLine ==
  JoinWith([i \in 1..NumFeatures |-> <<FEATURE_COLUMNS[i]>>] \o << <<"class">> >>, ",")
\* the same with white space around the feature names
HeaderSpaced ==
  JoinWith([i \in 1..NumFeatures |-> <<" ", FEATURE_COLUMNS[i], " ">>] \o << <<"class">> >>, ",")
\* a header without the last feature column
HeaderShort ==
  JoinWith([i \in 1..(NumFeatures - 1) |-> <<FEATURE_COLUMNS[i]>>] \o << <<"class">> >>, ",")
\* a data row: every feature cell holds value, the label cell holds label
Row(value, label) ==
  JoinWith([i \in 1..NumFeatures |-> <<value>>] \o << <<label>> >>, ",")
\* a data row one cell short
RowShort == JoinWith([i \in 1..NumFeatures |-> <<"1">>], ",")

\* the lines the enumerated corpus texts are made of
Lines ==
  { HeaderLine, HeaderSpaced, HeaderShort, <<"class">>, Row("1", "1"), Row("2", "0"),
    RowShort, <<>>, <<" ">>, <<"x">> }

RECURSIVE LineSeqs(_)
LineSeqs(n) ==
  IF n = 0 THEN {<<>>}
  ELSE LineSeqs(n - 1) \cup {Append(ls, l) : ls \in {x \in LineSeqs(n - 1) : Len(x) = n - 1}, l \in Lines}

\* every text of at most MaxLines of those lines
Texts == {JoinWith(ls, "\n") : ls \in LineSeqs(MaxLines)}

\* the corpora the concurrent specification serves: a well-formed one and one
\* whose header lacks a column
GoodText == JoinWith(<<HeaderLine, Row("1", "1"), Row("2", "0"), Row("3", "0.5")>>, "\n")
ServedTexts == {GoodText, JoinWith(<<HeaderShort, RowShort>>, "\n")}

\* --------------------------------------------------------------- the state

VARIABLES
  corpus,          \* the text DATASET_URL serves
  datasetPromise,  \* 0 for null, else the promise
  promises,        \* every dataset promise made so far: its stage and outcome
  featureStats,    \* Null, or the statistics object
  trainingSamples, \* Null, or the normalised sample list
  trainedMetadata, \* Null, or the metadata
  calls,           \* the trainVoiceKnnModel / predictVoiceSample calls: where each stands
  objects,         \* how many statistics objects were allocated (their identities)
  resets,          \* history: resetVoiceKnnModel calls so far
  epochCalls,      \* history: calls started since the last reset
  epochFetches,    \* history: fetches issued since the last reset
  epochInits,      \* history: initialisations run since the last reset
  applied          \* the last pure function applied on its own: arguments and result

\* the state of VoiceCaptureModal: a null is 0 (or "none"), a blob is the
\* number of its recording, a prediction or feature vector is the number of the
\* recording it was computed from, a test id is the position of its row
VARIABLES
  user,              \* useAuth().user is there
  recordingStatus,   \* 'idle' | 'recording' | 'recorded'
  recordingDuration, \* seconds counted by the interval timer
  audioBlob,
  predictionShown,   \* the prediction state
  featureVector,
  prescription,
  analyzing,
  analysisError,     \* "none", or what failed
  modelError,        \* the model failed to load
  modelLoading,
  savedTestId,
  error,             \* "none", or the message shown for the recording
  mediaRecorder,     \* mediaRecorderRef.current: 0, or the recording it records
  recordingTimer,    \* the interval timer is running
  autoStopTimer,     \* 0, or the recording whose auto-stop timeout is pending
  analysisTimers,    \* the recordings whose 500 ms timeout is pending
  recordings,        \* each startRecording call: its stage and the render it closed over
  runs,              \* each triggerAnalysis / handleAnalyze call: where it stands
  tests              \* the rows of the tests table

ui == << user, recordingStatus, recordingDuration, audioBlob, predictionShown,
         featureVector,
         prescription, analyzing, analysisError, modelError, modelLoading, savedTestId,
         error, mediaRecorder, recordingTimer, autoStopTimer, analysisTimers,
         recordings, runs, tests >>

vars == << corpus, datasetPromise, promises, featureStats, trainingSamples,
           trainedMetadata, calls, objects, resets, epochCalls, epochFetches, epochInits,
           applied, ui >>

cache == << datasetPromise, featureStats, trainingSamples, trainedMetadata >>

Calls == 1..MaxCalls
\* single-flight loading needs one promise for each time the cache is empty
Promises == 1..(MaxResets + 1)

\* options.k ?? 5
DefaultK == 5

\* options: k given or left out
KOptions == {[given |-> FALSE, k |-> 0], [given |-> TRUE, k |-> 1]}

\* the feature vectors predictions are asked for
QueryFeatures == {[key \in FeatureKey |-> 10]}

NoResult == [type |-> "none", value |-> Null, error |-> NoError]

IdleCall ==
  [ kind |-> "none", pc |-> "idle", k |-> 0, features |-> [key \in FeatureKey |-> 0],
    p |-> 0, samples |-> Null, result |-> NoResult,
    \* history: the cache and the counters as the call found them
    epoch |-> 0, nth |-> 0, populated |-> FALSE, loaded |-> FALSE, fetched |-> FALSE,
    \* history: what the prediction normalised with and compared against
    normBy |-> 0, refBy |-> 0, full |-> FALSE ]

\* the call settles with result; its local variables are gone
Return(call, result) ==
  [call EXCEPT !.pc = "done", !.result = result, !.features = IdleCall.features,
               !.p = 0, !.samples = Null]

\* response and parses are history: how the fetch ended, how often its text
\* was parsed
NewPromise == [state |-> "none", result |-> Throw(NoError), response |-> "none", parses |-> 0]

Settled(p) == promises[p].state \in {"fulfilled", "rejected"}

\* the call has a promise reaction queued (a microtask)
Ready(c) ==
  \/ calls[c].pc = "awaitEnsure"
  \/ calls[c].pc = "awaitLoad" /\ Settled(calls[c].p)

\* the event loop runs every queued reaction before the next network task
NoMicrotaskReady == \A c \in DOMAIN calls : ~Ready(c)

\* ensureModel without its cache test
CacheHit_never == FALSE

\* if (trainingSamples && featureStats)
CacheHit == trainingSamples # Null /\ featureStats # Null

\* loadDataset without its promise test: every call fetches
NoDatasetPromise_always == TRUE

\* if (!datasetPromise)
NoDatasetPromise == datasetPromise = 0

CachePopulated == featureStats # Null /\ trainingSamples # Null /\ trainedMetadata # Null

getVoiceModelMetadata == trainedMetadata

\* no function has been applied on its own
NotApplied == [op |-> "none"]

\* recordings of one modal session, and the clicks on Re-run Voice Screening
Recordings == 1..MaxRecordings

NoRender ==
  [recordingStatus |-> "idle", recordingDuration |-> 0, modelError |-> FALSE,
   savedTestId |-> 0, audioBlob |-> 0]

NoRecording ==
  [stage |-> "none", render |-> NoRender, voiced |-> FALSE,
   \* history: the model had failed when the recording stopped
   failedAtStop |-> FALSE]

\* the modal as it is mounted, for a user who is signed in or is not
InitUi(users) ==
  /\ user \in users
  /\ recordingStatus = "idle"
  /\ recordingDuration = 0
  /\ audioBlob = 0
  /\ predictionShown = 0
  /\ featureVector = 0
  /\ prescription = 0
  /\ analyzing = FALSE
  /\ analysisError = "none"
  /\ modelError = FALSE
  /\ modelLoading = TRUE
  /\ savedTestId = 0
  /\ error = "none"
  /\ mediaRecorder = 0
  /\ recordingTimer = FALSE
  /\ autoStopTimer = 0
  /\ analysisTimers = {}
  /\ recordings = [r \in Recordings |-> NoRecording]
  /\ runs = <<>>
  /\ tests = <<>>

InitCommon ==
  /\ datasetPromise = 0
  /\ promises = [p \in Promises |-> NewPromise]
  /\ featureStats = Null
  /\ trainingSamples = Null
  /\ trainedMetadata = Null
  /\ calls = [c \in Calls |-> IdleCall]
  /\ objects = 0
  /\ resets = 0
  /\ epochCalls = 0
  /\ epochFetches = 0
  /\ epochInits = 0
  /\ applied = NotApplied
  /\ InitUi({TRUE})

Init == corpus \in ServedTexts /\ InitCommon

InitLoad == corpus \in Texts /\ InitCommon

\* ------------------------------------------------------------- the actions

\* trainVoiceKnnModel(options) or predictVoiceSample(features, options), up to
\* its first await: ensureModel's cache test and loadDataset
Start(c, kind, options, features) ==
  /\ calls[c].pc = "idle"
  /\ \A d \in 1..(c - 1) : calls[d].pc # "idle"
  /\ LET k == IF options.given THEN options.k
              ELSE IF kind = "predict" /\ trainedMetadata # Null THEN trainedMetadata.k
              ELSE DefaultK
         started == [IdleCall EXCEPT !.kind = kind, !.k = k, !.features = features,
                       !.epoch = resets, !.nth = epochCalls + 1,
                       !.populated = CachePopulated,
                       !.loaded = (datasetPromise # 0)]
     IN IF CacheHit
        THEN /\ calls' = [calls EXCEPT ![c] =
                  [started EXCEPT !.pc = "awaitEnsure", !.samples = trainingSamples]]
             /\ UNCHANGED << datasetPromise, promises, epochFetches >>
        ELSE IF NoDatasetPromise
        THEN /\ \E p \in Promises :
                  /\ promises[p].state = "none"
                  /\ \A q \in 1..(p - 1) : promises[q].state # "none"
                  /\ datasetPromise' = p
                  /\ promises' = [promises EXCEPT ![p].state = "fetching"]
                  /\ calls' = [calls EXCEPT ![c] =
                       [started EXCEPT !.pc = "awaitLoad", !.p = p, !.fetched = TRUE]]
             /\ epochFetches' = epochFetches + 1
        ELSE /\ calls' = [calls EXCEPT ![c] =
                  [started EXCEPT !.pc = "awaitLoad", !.p = datasetPromise]]
             /\ UNCHANGED << datasetPromise, promises, epochFetches >>
  /\ epochCalls' = epochCalls + 1
  /\ UNCHANGED << corpus, featureStats, trainingSamples, trainedMetadata, objects,
                  resets, epochInits, applied, ui >>

\* the fetch settles: a response that is ok, one that is not, or no response
FetchRespond(p, outcome) ==
  /\ promises[p].state = "fetching"
  /\ NoMicrotaskReady
  /\ promises' = [promises EXCEPT ![p] =
       CASE outcome = "ok" -> [@ EXCEPT !.state = "reading", !.response = outcome]
         [] outcome = "notOk" ->
              [@ EXCEPT !.state = "rejected", !.response = outcome,
                        !.result = Throw(Error("FailedToLoad"))]
         [] outcome = "networkError" ->
              [@ EXCEPT !.state = "rejected", !.response = outcome,
                        !.result = Throw(Error("FetchRejected"))]]
  /\ UNCHANGED << corpus, datasetPromise, featureStats, trainingSamples, trainedMetadata,
                  calls, objects, resets, epochCalls, epochFetches, epochInits, applied, ui >>

\* response.text() arrives and .then(parseCsvDataset) runs
ParseResponse(p) ==
  /\ promises[p].state = "reading"
  /\ NoMicrotaskReady
  /\ LET result == parseCsvDataset(corpus) IN
     promises' = [promises EXCEPT ![p] =
       [@ EXCEPT !.state = IF result.ok THEN "fulfilled" ELSE "rejected",
                 !.result = result, !.parses = @ + 1]]
  /\ UNCHANGED << corpus, datasetPromise, featureStats, trainingSamples, trainedMetadata,
                  calls, objects, resets, epochCalls, epochFetches, epochInits, applied, ui >>

\* ensureModel after await loadDataset(): throws what the promise rejected
\* with, or computes the statistics, the normalised samples and the accuracy
EnsureContinue(c) ==
  /\ calls[c].pc = "awaitLoad"
  /\ Settled(calls[c].p)
  /\ LET promise == promises[calls[c].p] IN
     IF promise.state = "rejected"
     THEN /\ calls' = [calls EXCEPT ![c] =
                    Return(@, [type |-> "error", value |-> Null,
                               error |-> promise.result.error])]
          /\ UNCHANGED << featureStats, trainingSamples, trainedMetadata, objects, epochInits >>
     ELSE LET samples == promise.result.samples
              stats == computeFeatureStats(samples)
              normalised == normaliseSamples(samples, stats)
              list == [id |-> objects + 1, by |-> objects + 1, from |-> calls[c].p,
                       samples |-> normalised]
          IN /\ featureStats' = [id |-> objects + 1, stats |-> stats]
             /\ trainingSamples' = list
             /\ trainedMetadata' = Metadata(normalised, calls[c].k)
             /\ objects' = objects + 1
             /\ epochInits' = epochInits + 1
             /\ calls' = [calls EXCEPT ![c].pc = "awaitEnsure", ![c].samples = list]
  /\ UNCHANGED << corpus, datasetPromise, promises, resets, epochCalls, epochFetches,
                  applied, ui >>

\* the caller after await ensureModel(k)
Finish(c) ==
  /\ calls[c].pc = "awaitEnsure"
  /\ IF calls[c].kind = "train"
     THEN calls' = [calls EXCEPT ![c] =
                      Return(@, [type |-> "metadata", value |-> trainedMetadata,
                                 error |-> NoError])]
     ELSE IF featureStats = Null
     THEN calls' = [calls EXCEPT ![c] =
                      Return(@, [type |-> "error", value |-> Null,
                                 error |-> Error("StatsUnavailable")])]
     ELSE LET normalisedVector == normalise(calls[c].features, featureStats.stats)
              outcome == predictFromSamples(normalisedVector, calls[c].samples.samples,
                                            calls[c].k)
          IN calls' = [calls EXCEPT ![c] =
                         Return([@ EXCEPT !.normBy = featureStats.id,
                                          !.refBy = calls[c].samples.by,
                                          !.full = CachePopulated],
                                IF outcome.ok
                                THEN [type |-> "prediction", value |-> outcome.prediction,
                                      error |-> NoError]
                                ELSE [type |-> "error", value |-> Null,
                                      error |-> outcome.error])]
  /\ UNCHANGED << corpus, datasetPromise, promises, featureStats, trainingSamples,
                  trainedMetadata, objects, resets, epochCalls, epochFetches, epochInits,
                  applied, ui >>

\* a reset that forgets to clear the metadata
resetVoiceKnnModel_keepsMetadata ==
  /\ resets < MaxResets
  /\ datasetPromise' = 0
  /\ featureStats' = Null
  /\ trainingSamples' = Null
  /\ resets' = resets + 1
  /\ epochCalls' = 0
  /\ epochFetches' = 0
  /\ epochInits' = 0
  /\ UNCHANGED << corpus, promises, calls, objects, trainedMetadata, applied, ui >>

resetVoiceKnnModel ==
  /\ resets < MaxResets
  /\ datasetPromise' = 0
  /\ featureStats' = Null
  /\ trainingSamples' = Null
  /\ trainedMetadata' = Null
  /\ resets' = resets + 1
  /\ epochCalls' = 0
  /\ epochFetches' = 0
  /\ epochInits' = 0
  /\ UNCHANGED << corpus, promises, calls, objects, applied, ui >>

Next ==
  \/ \E c \in Calls, options \in KOptions : Start(c, "train", options, IdleCall.features)
  \/ \E c \in Calls, features \in QueryFeatures :
       Start(c, "predict", [given |-> FALSE, k |-> 0], features)
  \/ \E p \in Promises, outcome \in {"ok", "notOk"} : FetchRespond(p, outcome)
  \/ \E p \in Promises : ParseResponse(p)
  \/ \E c \in Calls : EnsureContinue(c)
  \/ \E c \in Calls : Finish(c)
  \/ resetVoiceKnnModel

Spec == Init /\ [][Next]_vars

\* one call against every enumerated corpus text
NextLoad ==
  \/ Start(1, "train", [given |-> FALSE, k |-> 0], IdleCall.features)
  \/ \E features \in QueryFeatures : Start(1, "predict", [given |-> FALSE, k |-> 0], features)
  \/ \E outcome \in {"ok", "notOk", "networkError"} : FetchRespond(1, outcome)
  \/ ParseResponse(1)
  \/ EnsureContinue(1)
  \/ Finish(1)

SpecLoad == InitLoad /\ [][NextLoad]_vars

\* calls around a failed load: the corpus is good, the fetch may fail, and a
\* third call can start after two have settled
RetryCalls == 1..MaxRetryCalls

InitRetry ==
  /\ corpus = GoodText
  /\ datasetPromise = 0
  /\ promises = [p \in Promises |-> NewPromise]
  /\ featureStats = Null
  /\ trainingSamples = Null
  /\ trainedMetadata = Null
  /\ calls = [c \in RetryCalls |-> IdleCall]
  /\ objects = 0
  /\ resets = 0
  /\ epochCalls = 0
  /\ epochFetches = 0
  /\ epochInits = 0
  /\ applied = NotApplied
  /\ InitUi({TRUE})

NextRetry ==
  \/ \E c \in RetryCalls : Start(c, "train", [given |-> FALSE, k |-> 0], IdleCall.features)
  \/ \E c \in RetryCalls, features \in QueryFeatures :
       Start(c, "predict", [given |-> FALSE, k |-> 0], features)
  \/ \E p \in Promises, outcome \in {"ok", "notOk"} : FetchRespond(p, outcome)
  \/ \E p \in Promises : ParseResponse(p)
  \/ \E c \in RetryCalls : EnsureContinue(c)
  \/ \E c \in RetryCalls : Finish(c)
  \/ resetVoiceKnnModel

SpecRetry == InitRetry /\ [][NextRetry]_vars

\* ------------------------------------------------------ signal conditioning
\* Amplitudes are integers in thousandths of full scale; a sample rate is in
\* tenths of a hertz, so that the 15 second cap cuts waveforms of a few samples.

Abs(x) == IF x < 0 THEN -x ELSE x

\* the default threshold of trimSilence, 0.01
SilenceThreshold == 10

\* the default maxSeconds of limitDuration
MaxSeconds == 15

\* a buffer: numberOfChannels, length, and the data of each channel
AudioBuffer(channels) ==
  [numberOfChannels |-> Len(channels), length |-> Len(channels[1]), channels |-> channels]

\* the channels averaged sample by sample; one channel is copied
mixDownToMono(buffer) ==
  IF buffer.numberOfChannels = 1 THEN buffer.channels[1]
  ELSE [index \in 1..buffer.length |->
          SumSeq([channel \in 1..buffer.numberOfChannels |-> buffer.channels[channel][index]])
            \div buffer.numberOfChannels]

\* while (start < signal.length && Math.abs(signal[start]) < threshold) start += 1
RECURSIVE TrimStartIndex(_, _)
TrimStartIndex(signal, start) ==
  IF start < Len(signal) /\ Abs(signal[start + 1]) < SilenceThreshold
  THEN TrimStartIndex(signal, start + 1) ELSE start

\* while (end > start && Math.abs(signal[end]) < threshold) end -= 1
RECURSIVE TrimEndIndex(_, _, _)
TrimEndIndex(signal, start, end) ==
  IF end > start /\ Abs(signal[end + 1]) < SilenceThreshold
  THEN TrimEndIndex(signal, start, end - 1) ELSE end

trimSilence(signal) ==
  LET start == TrimStartIndex(signal, 0)
      end == TrimEndIndex(signal, start, Len(signal) - 1)
  IN IF end <= start THEN signal ELSE SubSeq(signal, start + 1, end + 1)

\* Math.floor(sampleRate * maxSeconds), the rate in tenths of a hertz
CapSamples(sampleRate) == (sampleRate * MaxSeconds) \div 10

\* a duration limit that cuts nothing
limitDuration_uncapped(signal, sampleRate) == signal

limitDuration(signal, sampleRate) ==
  LET maxSamples == Min(Len(signal), CapSamples(sampleRate)) IN
  IF Len(signal) <= maxSamples THEN signal ELSE SubSeq(signal, 1, maxSamples)

\* ---------------------------------- the functions applied to their inputs

RECURSIVE SeqsOfLen(_, _)
SeqsOfLen(S, n) ==
  IF n = 0 THEN {<<>>} ELSE {Append(seq, x) : seq \in SeqsOfLen(S, n - 1), x \in S}

SeqsUpTo(S, n) == UNION {SeqsOfLen(S, m) : m \in 0..n}

VoiceClass == {"Parkinsons", "Healthy"}

\* normalised vectors along the first axis: their distances are exact
AxisVector(x) == [i \in 1..NumFeatures |-> IF i = 1 THEN x ELSE 0]

\* reference samples at 0, 2, 10 and 11 standard deviations, queries at 0 and 1
ReferenceSamples ==
  {[label |-> label, vector |-> AxisVector(x)] : label \in VoiceClass, x \in {0, 20, 100, 110}}
ReferenceSets == SeqsUpTo(ReferenceSamples, MaxSamples)
QueryVectors == {AxisVector(0), AxisVector(10)}
PredictK == {-1, 0, 1, 2, MaxSamples, 1000}

\* dataset samples: every feature holds the same value, 0, 1e-7, 1 or 3
DatasetSamples ==
  {[features |-> [key \in FeatureKey |-> value], label |-> label] :
     value \in {0, 1, 10, 30}, label \in VoiceClass}
Datasets == SeqsUpTo(DatasetSamples, MaxSamples) \ {<<>>}
TrainK == {1, 2, DefaultK}

\* corpus texts for the labels: a header with one label column and one or two
\* rows, or a header with two label columns and one row
HeaderTwoClass ==
  JoinWith(<< <<"class">> >> \o [i \in 1..NumFeatures |-> <<FEATURE_COLUMNS[i]>>]
             \o << <<"class">> >>, ",")
HeaderClassSpaced ==
  JoinWith(<< <<"class">> >> \o [i \in 1..NumFeatures |-> <<FEATURE_COLUMNS[i]>>]
             \o << <<" ", "class", " ">> >>, ",")
LabelCells == { <<"0">>, <<"0.4">>, <<"0.5">>, <<"1">>, <<"x">>, <<>>, <<" ", "1">> }
LabelRow(cell) == JoinWith([i \in 1..NumFeatures |-> <<"1">>] \o <<cell>>, ",")
TwoLabelRow(first, last) ==
  JoinWith(<<first>> \o [i \in 1..NumFeatures |-> <<"1">>] \o <<last>>, ",")
LabelTexts ==
  {JoinWith(<<HeaderLine>> \o rows, "\n") :
     rows \in SeqsUpTo({LabelRow(cell) : cell \in LabelCells}, 2) \ {<<>>}}
  \cup {JoinWith(<<header, TwoLabelRow(first, last)>>, "\n") :
          header \in {HeaderTwoClass, HeaderClassSpaced},
          first \in LabelCells, last \in LabelCells}

\* waveforms, and the buffers that hold them: one channel, or two channels of
\* which the second repeats, is silent on, or cancels the first
Amplitudes == {0, 4, 10, -20}
Signals == SeqsUpTo(Amplitudes, MaxSignal) \ {<<>>}
Buffers ==
  {AudioBuffer(<<signal>>) : signal \in Signals}
  \cup {AudioBuffer(<<signal, [i \in 1..Len(signal) |-> factor * signal[i]]>>) :
          signal \in Signals, factor \in {1, 0, -1}}
\* 0.1 Hz, 0.2 Hz and 1 Hz: caps of 1, 3 and 15 samples
SampleRates == {1, 2, 10}

\* the variables of the service, which a function applied on its own leaves alone
service == << corpus, datasetPromise, promises, featureStats, trainingSamples,
              trainedMetadata, calls, objects, resets, epochCalls, epochFetches,
              epochInits >>

\* each behaviour applies one function to one input
InitApplied == corpus = <<>> /\ InitCommon

\* predictFromSamples(vector, samples, k)
Predict ==
  /\ applied = NotApplied
  /\ \E vector \in QueryVectors, samples \in ReferenceSets, k \in PredictK :
       applied' = [op |-> "predictFromSamples", vector |-> vector, samples |-> samples,
                   k |-> k, result |-> predictFromSamples(vector, samples, k)]
  /\ UNCHANGED << service, ui >>

\* ensureModel(k) once the dataset is there: the statistics, the normalised
\* samples and the metadata it assigns
Train ==
  /\ applied = NotApplied
  /\ \E dataset \in Datasets, k \in TrainK :
       LET stats == computeFeatureStats(dataset)
           normalised == normaliseSamples(dataset, stats)
       IN applied' = [op |-> "ensureModel", dataset |-> dataset, k |-> k,
                      featureStats |-> stats, trainingSamples |-> normalised,
                      trainedMetadata |-> Metadata(normalised, k)]
  /\ UNCHANGED << service, ui >>

\* parseCsvDataset(csvText)
Parse ==
  /\ applied = NotApplied
  /\ \E csvText \in LabelTexts :
       applied' = [op |-> "parseCsvDataset", csvText |-> csvText,
                   result |-> parseCsvDataset(csvText)]
  /\ UNCHANGED << service, ui >>

NextKnn == Predict \/ Train \/ Parse

SpecKnn == InitApplied /\ [][NextKnn]_vars

\* extractVoiceFeatures from the decoded buffer to the conditioned signal
Condition ==
  /\ applied = NotApplied
  /\ \E buffer \in Buffers, sampleRate \in SampleRates :
       LET mono == mixDownToMono(buffer)
           trimmed == trimSilence(mono)
       IN applied' = [op |-> "condition", buffer |-> buffer, sampleRate |-> sampleRate,
                      mono |-> mono, trimmed |-> trimmed,
                      limited |-> limitDuration(trimmed, sampleRate)]
  /\ UNCHANGED << service, ui >>

NextSignal == Condition

SpecSignal == InitApplied /\ [][NextSignal]_vars

\* ------------------------------------------------- the feature extraction
\*
\* A waveform is its length in samples and, for every analysis frame it
\* holds, what the numerical part of analyseFrame measures on that frame (the
\* energy after windowing, the rms, the best lag and its correlation). The
\* decisions taken on these measurements are those of the code. Energies are
\* in units of 1e-9, correlations in hundredths, rms values in thousandths;
\* frequencies and the perturbation quotients are exact fractions.

Fraction(num, den) == [nan |-> FALSE, num |-> num, den |-> den]
NotANumber == [nan |-> TRUE, num |-> 0, den |-> 1]
Zero == Fraction(0, 1)

frameSize == 2048
hopSize == 512
minFrequency == 60
maxFrequency == 400
\* energy <= 1e-9
EnergyFloor == 1
\* bestCorrelation < 0.3, analysis.correlation >= 0.3
MinCorrelation == 30
\* frequency < 50 || frequency > 500
PitchFloor == 50
PitchCeiling == 500
\* pitches.length < 5
MinFrames == 5

\* Math.max(1, Math.floor(sampleRate / maxFrequency))
MinLag(sampleRate) == Max(1, sampleRate \div maxFrequency)
\* Math.max(minLag + 1, Math.floor(sampleRate / minFrequency))
MaxLag(sampleRate) == Max(MinLag(sampleRate) + 1, sampleRate \div minFrequency)

\* what the windowing and the autocorrelation loop measure on a frame: an
\* all-zero frame; a frame whose best correlation is 0.29; voiced frames whose
\* best lag is the smallest or the largest lag tried, with correlations 0.9
\* and 0.3
FrameKinds == {"silent", "weak", "voicedMinLag", "voicedMaxLag"}

Measure(kind, minLag, maxLag) ==
  CASE kind = "silent" -> [energy |-> 0, rms |-> 0, bestCorrelation |-> 0, bestLag |-> 0]
    [] kind = "weak" -> [energy |-> 5, rms |-> 2, bestCorrelation |-> 29, bestLag |-> maxLag]
    [] kind = "voicedMinLag" -> [energy |-> 9, rms |-> 3, bestCorrelation |-> 90,
                                 bestLag |-> minLag]
    [] kind = "voicedMaxLag" -> [energy |-> 5, rms |-> 1, bestCorrelation |-> MinCorrelation,
                                 bestLag |-> maxLag]

\* the result of analyseFrame for a frame that is not empty
analyseFrame(kind, sampleRate, minLag, maxLag) ==
  LET measured == Measure(kind, minLag, maxLag) IN
  IF measured.energy <= EnergyFloor
  THEN [frequency |-> Null, correlation |-> 0, rms |-> measured.rms]
  ELSE IF measured.bestLag = 0 \/ measured.bestCorrelation < MinCorrelation
  THEN [frequency |-> Null, correlation |-> measured.bestCorrelation, rms |-> measured.rms]
  ELSE IF sampleRate < PitchFloor * measured.bestLag
          \/ sampleRate > PitchCeiling * measured.bestLag
  THEN [frequency |-> Null, correlation |-> measured.bestCorrelation, rms |-> measured.rms]
  ELSE [frequency |-> Fraction(sampleRate, measured.bestLag),
        correlation |-> measured.bestCorrelation, rms |-> measured.rms]

\* for (start = 0; start + frameSize <= samples.length; start += hopSize)
RECURSIVE FrameStarts(_, _)
FrameStarts(start, length) ==
  IF start + frameSize <= length
  THEN <<start>> \o FrameStarts(start + hopSize, length)
  ELSE <<>>

\* a test that lets any number of frames through
TooFewFrames_never(pitches) == FALSE

\* pitches.length < 5
TooFewFrames(pitches) == Len(pitches) < MinFrames

\* mean() as an exact fraction
meanFraction(values) ==
  IF Len(values) = 0 THEN Zero ELSE Fraction(SumSeq(values), Len(values))

\* Math.floor(windowSize / 2)
ApqHalf(windowSize) == windowSize \div 2

\* a loop over every index of the sequence
ApqCentres_all(length, windowSize) == 1..length

\* for (index = half; index < amplitudes.length - half; index += 1), 1-based
ApqCentres(length, windowSize) ==
  (ApqHalf(windowSize) + 1)..(length - ApqHalf(windowSize))

\* the indices read for one centre: offset = -half .. half
ApqWindow(centre, windowSize) ==
  (centre - ApqHalf(windowSize))..(centre + ApqHalf(windowSize))

\* the indices computeApq reads
ApqReads(length, windowSize) ==
  UNION {ApqWindow(centre, windowSize) : centre \in ApqCentres(length, windowSize)}

RECURSIVE SumOver(_, _)
SumOver(f, S) ==
  IF S = {} THEN 0 ELSE LET x == CHOOSE y \in S : TRUE IN f[x] + SumOver(f, S \ {x})

\* sum / count / meanAmplitude; a read outside the sequence is undefined and
\* makes the result NaN
computeApq(amplitudes, meanAmplitude, windowSize) ==
  IF Len(amplitudes) < windowSize \/ meanAmplitude.num = 0 THEN Zero
  ELSE
    LET centres == ApqCentres(Len(amplitudes), windowSize)
        deviation ==
          [index \in centres |->
             Abs(windowSize * amplitudes[index]
                 - SumOver(amplitudes, ApqWindow(index, windowSize)))]
    IN IF ~(ApqReads(Len(amplitudes), windowSize) \subseteq 1..Len(amplitudes))
       THEN NotANumber
       ELSE IF Cardinality(centres) = 0 THEN Zero
       ELSE Fraction(SumOver(deviation, centres) * meanAmplitude.den,
                     windowSize * Cardinality(centres) * meanAmplitude.num)

\* a fraction times an integer
Times(fraction, factor) ==
  IF fraction.nan THEN NotANumber ELSE Fraction(fraction.num * factor, fraction.den)

\* the sequences collected from the accepted frames, and the error thrown or
\* the features computed from them (of the 16 features, the amplitude
\* perturbation quotients and the DDA shimmer are carried)
computeVoiceFeaturesFromSignal(samples, sampleRate) ==
  LET minLag == MinLag(sampleRate)
      maxLag == MaxLag(sampleRate)
      starts == FrameStarts(0, samples.length)
      analyses ==
        [i \in 1..Len(starts) |->
           analyseFrame(samples.frames[starts[i] \div hopSize + 1], sampleRate, minLag, maxLag)]
      accepted(analysis) ==
        analysis.frequency # Null /\ analysis.correlation >= MinCorrelation
      voiced == SelectSeq(analyses, accepted)
      pitches == [i \in 1..Len(voiced) |-> voiced[i].frequency]
      periods == [i \in 1..Len(voiced) |->
                    Fraction(voiced[i].frequency.den, voiced[i].frequency.num)]
      amplitudes == [i \in 1..Len(voiced) |-> voiced[i].rms]
      correlations == [i \in 1..Len(voiced) |-> voiced[i].correlation]
      meanAmplitude == meanFraction(amplitudes)
      apq3 == Times(computeApq(amplitudes, meanAmplitude, 3), 100)
      apq5 == Times(computeApq(amplitudes, meanAmplitude, 5), 100)
      apq11 == Times(computeApq(amplitudes, meanAmplitude, 11), 100)
      shimmerDDA == Times(apq3, 3)
  IN [pitches |-> pitches, periods |-> periods, amplitudes |-> amplitudes,
      correlations |-> correlations,
      error |-> IF TooFewFrames(pitches) THEN Error("InsufficientVoicedSignal") ELSE NoError,
      features |->
        IF TooFewFrames(pitches) THEN Null
        ELSE [null |-> FALSE, apq3Shimmer |-> apq3, apq5Shimmer |-> apq5,
              apq11Shimmer |-> apq11, ddaShimmer |-> shimmerDDA]]

\* waveforms: empty, one sample short of a frame, one frame, one sample short
\* of five frames, five frames, and the longest
SignalLengths ==
  {0, frameSize - 1, frameSize, frameSize + 4 * hopSize - 1, frameSize + 4 * hopSize,
   frameSize + (MaxFrames - 1) * hopSize}
Waveforms ==
  UNION {{[length |-> length, frames |-> frames] :
            frames \in SeqsOfLen(FrameKinds, Len(FrameStarts(0, length)))} :
         length \in SignalLengths}
\* sample rates in hertz: the lag range is 1..11 and 20..133
FeatureSampleRates == {700, 8000}

\* amplitude sequences: three values repeated up to the length
AmplitudeSequences ==
  {[i \in 1..length |-> base[((i - 1) % 3) + 1]] :
     length \in 0..MaxAmplitudes, base \in SeqsOfLen({0, 1, 3}, 3)}
WindowSizes == {3, 5, 11}

\* computeVoiceFeaturesFromSignal(samples, sampleRate)
Extract ==
  /\ applied = NotApplied
  /\ \E samples \in Waveforms, sampleRate \in FeatureSampleRates :
       applied' = [op |-> "computeVoiceFeaturesFromSignal", samples |-> samples,
                   sampleRate |-> sampleRate,
                   result |-> computeVoiceFeaturesFromSignal(samples, sampleRate)]
  /\ UNCHANGED << service, ui >>

\* computeApq(amplitudes, mean(amplitudes), windowSize)
Apq ==
  /\ applied = NotApplied
  /\ \E amplitudes \in AmplitudeSequences, windowSize \in WindowSizes :
       applied' = [op |-> "computeApq", amplitudes |-> amplitudes,
                   windowSize |-> windowSize,
                   reads |-> IF Len(amplitudes) < windowSize
                                \/ meanFraction(amplitudes).num = 0
                             THEN {} ELSE ApqReads(Len(amplitudes), windowSize),
                   result |-> computeApq(amplitudes, meanFraction(amplitudes), windowSize)]
  /\ UNCHANGED << service, ui >>

NextFeatures == Extract \/ Apq

SpecFeatures == InitApplied /\ [][NextFeatures]_vars

\* ------------------------- the offline accuracy script and the evaluation

\* Array.prototype.slice(0, k): a negative k counts from the end
Slice(seq, k) ==
  IF k >= 0 THEN SubSeq(seq, 1, Min(k, Len(seq)))
  ELSE SubSeq(seq, 1, Max(Len(seq) + k, 0))

\* the label the script predicts for a vector from the training subset
scriptPredicted(vector, train, k) ==
  LET neighbours ==
        Slice(SortByDistance([i \in 1..Len(train) |->
                [label |-> train[i].label,
                 distance |-> euclideanDistance(train[i].vector, vector)]]), k)
      parkinsons == Cardinality({i \in 1..Len(neighbours) : neighbours[i].label = "Parkinsons"})
      healthy == Cardinality({i \in 1..Len(neighbours) : neighbours[i].label = "Healthy"})
  IN IF parkinsons >= healthy THEN "Parkinsons" ELSE "Healthy"

\* leaveOneOutAccuracy of scripts/compute_voice_knn_accuracy.js
scriptLeaveOneOutAccuracy(normSamples, k) ==
  IF Len(normSamples) < 2 THEN Null
  ELSE [num |->
          Cardinality({i \in 1..Len(normSamples) :
            scriptPredicted(normSamples[i].vector, Without(normSamples, i), k)
              = normSamples[i].label}),
        den |-> Len(normSamples)]

\* the values of k the script evaluates: for (k = 1; k <= 9; k += 2)
ScriptK == {1, 3, 5, 7, 9}

\* the evaluation of one sample list by the service and by the script; filter
\* and map build new arrays, so the list itself is what it was
LeaveOneOut ==
  /\ applied = NotApplied
  /\ \E samples \in ReferenceSets, k \in PredictK \cup ScriptK :
       applied' = [op |-> "leaveOneOutAccuracy", samples |-> samples, k |-> k,
                   accuracy |-> leaveOneOutAccuracy(samples, k),
                   scriptAccuracy |-> scriptLeaveOneOutAccuracy(samples, k),
                   samplesAfter |-> samples]
  /\ UNCHANGED << service, ui >>

NextEvaluate == LeaveOneOut

SpecEvaluate == InitApplied /\ [][NextEvaluate]_vars

\* ------------------------------------------------- the voice capture modal
\*
\* One session of VoiceCaptureModal. A handler sees the state of the render
\* that created it: a click runs the handler of the latest render, while the
\* timers and the onstop handler set up by startRecording keep the render in
\* which startRecording was called. The service is seen from outside: the
\* model load settles once, and predictVoiceSample fails when the load failed.
\* The user clicks a start button only when nothing is pending: no getUserMedia
\* request, no 500 ms timeout and no analysis run.

RECORDING_DURATION_SECONDS == 30
MIN_RECORDING_DURATION_SECONDS == 3

recorder == << mediaRecorder, recordingTimer, autoStopTimer >>
results == << predictionShown, featureVector, prescription >>
model == << modelError, modelLoading >>

\* what the handlers of the current render close over
Render ==
  [recordingStatus |-> recordingStatus, recordingDuration |-> recordingDuration,
   modelError |-> modelError, savedTestId |-> savedTestId, audioBlob |-> audioBlob]

\* the buttons that call startRecording: the microphone when idle, Record Again
\* and Record New Sample when recorded
StartVisible ==
  \/ recordingStatus = "idle"
  \/ /\ recordingStatus = "recorded"
     /\ (~analyzing /\ predictionShown = 0) \/ predictionShown # 0

\* Re-run Voice Screening is shown and not disabled
RerunEnabled ==
  /\ recordingStatus = "recorded" /\ ~analyzing /\ predictionShown = 0
  /\ ~(modelLoading \/ modelError)

\* the useEffect that trains the model settles
ModelLoaded(outcome) ==
  /\ modelLoading
  /\ modelLoading' = FALSE
  /\ modelError' = (outcome = "failed")
  /\ UNCHANGED << user, recordingStatus, recordingDuration, audioBlob, results, analyzing,
                  analysisError, savedTestId, error, recorder, analysisTimers, recordings,
                  runs, tests, service, applied >>

\* nothing of an earlier recording is pending
NothingPending == analysisTimers = {} /\ \A i \in 1..Len(runs) : runs[i].pc = "done"

\* an earlier recording whose timers have fired: nothing holds its render any
\* more, and the history kept of it and of its runs is dropped
Forgotten(recording) ==
  [recording EXCEPT !.render = NoRender, !.failedAtStop = FALSE]

\* startRecording up to await getUserMedia
startRecording(r) ==
  /\ StartVisible
  /\ NothingPending
  /\ recordings[r].stage = "none"
  /\ \A q \in Recordings : q < r => recordings[q].stage \notin {"none", "requested"}
  /\ recordings' =
       [q \in Recordings |->
          IF q = r THEN [recordings[q] EXCEPT !.stage = "requested", !.render = Render]
          ELSE Forgotten(recordings[q])]
  /\ runs' = <<>>
  /\ predictionShown' = 0
  /\ analysisError' = "none"
  /\ featureVector' = 0
  /\ prescription' = 0
  /\ savedTestId' = 0
  /\ error' = "none"
  /\ recordingDuration' = 0
  /\ UNCHANGED << user, recordingStatus, audioBlob, analyzing, model, recorder,
                  analysisTimers, tests, service, applied >>

\* getUserMedia resolves: the recorder starts and both timers are set
MicrophoneGranted(r) ==
  /\ recordings[r].stage = "requested"
  /\ recordings' = [recordings EXCEPT ![r].stage = "recording"]
  /\ recordingStatus' = "recording"
  /\ mediaRecorder' = r
  /\ recordingTimer' = TRUE
  /\ autoStopTimer' = r
  /\ UNCHANGED << user, recordingDuration, audioBlob, results, analyzing, analysisError,
                  model, savedTestId, error, analysisTimers, runs, tests, service, applied >>

\* getUserMedia rejects
MicrophoneDenied(r) ==
  /\ recordings[r].stage = "requested"
  /\ recordings' = [recordings EXCEPT ![r].stage = "denied"]
  /\ error' = "microphone"
  /\ UNCHANGED << user, recordingStatus, recordingDuration, audioBlob, results, analyzing,
                  analysisError, model, savedTestId, recorder, analysisTimers, runs, tests,
                  service, applied >>

\* the interval timer: setRecordingDuration((prev) => prev + 1); the stop
\* event of a recorder that was stopped is dispatched before the next second
Tick ==
  /\ recordingTimer
  /\ recordingDuration < MaxTicks
  /\ \A r \in Recordings : recordings[r].stage # "stopping"
  /\ recordingDuration' = recordingDuration + 1
  /\ UNCHANGED << user, recordingStatus, audioBlob, results, analyzing, analysisError,
                  model, savedTestId, error, recorder, analysisTimers, recordings, runs,
                  tests, service, applied >>

\* stopRecording as the render it belongs to sees the state
stopRecording(render) ==
  IF mediaRecorder # 0 /\ render.recordingStatus = "recording"
  THEN IF render.recordingDuration < MIN_RECORDING_DURATION_SECONDS
       THEN error' = "tooShort" /\ UNCHANGED recordings
       ELSE /\ recordings' = [recordings EXCEPT ![mediaRecorder].stage = "stopping"]
            /\ UNCHANGED error
  ELSE UNCHANGED << error, recordings >>

\* when the user clicks stop: too early, as early as allowed, or at the end
StopClickedAt ==
  {MIN_RECORDING_DURATION_SECONDS - 1, MIN_RECORDING_DURATION_SECONDS, MaxTicks}

\* a click on the stop button, shown while recording
ClickStop ==
  /\ recordingStatus = "recording"
  /\ recordingDuration \in StopClickedAt
  /\ recordings[mediaRecorder].stage = "recording"
  /\ stopRecording(Render)
  /\ UNCHANGED << user, recordingStatus, recordingDuration, audioBlob, results, analyzing,
                  analysisError, model, savedTestId, recorder, analysisTimers, runs, tests,
                  service, applied >>

\* the render an auto-stop timeout calls stopRecording in, were it the latest
AutoStopRender_latest(r) == Render

\* the render an auto-stop timeout calls stopRecording in: that of startRecording
AutoStopRender(r) == recordings[r].render

\* the timeout set for RECORDING_DURATION_SECONDS fires
AutoStopFire ==
  /\ autoStopTimer # 0
  /\ recordingDuration >= RECORDING_DURATION_SECONDS
  /\ autoStopTimer' = 0
  /\ stopRecording(AutoStopRender(autoStopTimer))
  /\ UNCHANGED << user, recordingStatus, recordingDuration, audioBlob, results, analyzing,
                  analysisError, model, savedTestId, mediaRecorder, recordingTimer,
                  analysisTimers, runs, tests, service, applied >>

\* the recorder's onstop handler; the waveform is voiced or is not
OnStop(r, voiced) ==
  /\ recordings[r].stage = "stopping"
  /\ recordings' = [recordings EXCEPT ![r] =
       [@ EXCEPT !.stage = "stopped", !.voiced = voiced, !.failedAtStop = modelError]]
  /\ audioBlob' = r
  /\ recordingStatus' = "recorded"
  /\ recordingTimer' = FALSE
  /\ autoStopTimer' = 0
  /\ analysisTimers' = analysisTimers \cup {r}
  /\ UNCHANGED << user, recordingDuration, results, analyzing, analysisError, model,
                  savedTestId, error, mediaRecorder, runs, tests, service, applied >>

NewRun(kind, blob, render) ==
  [kind |-> kind, blob |-> blob, pc |-> "extracting", savedTestId |-> render.savedTestId,
   \* history: what the run did
   extracted |-> FALSE, predicted |-> FALSE, wrote |-> "none", outcome |-> "none"]

\* triggerAnalysis / handleAnalyze up to await extractVoiceFeatures
StartAnalysis(kind, blob, render) ==
  IF blob = 0 \/ render.modelError
  THEN UNCHANGED << analyzing, analysisError, runs >>
  ELSE /\ analyzing' = TRUE
       /\ analysisError' = "none"
       /\ runs' = Append(runs, NewRun(kind, blob, render))

\* a timeout that never starts the analysis
AnalysisAllowed_never(render) == FALSE

\* if (!modelError && blob) in the timeout of the onstop handler
AnalysisAllowed(render) == ~render.modelError

\* the 500 ms timeout of the onstop handler fires
AnalysisTimerFire(r) ==
  /\ r \in analysisTimers
  /\ analysisTimers' = analysisTimers \ {r}
  /\ IF AnalysisAllowed(recordings[r].render)
     THEN audioBlob' = r /\ StartAnalysis("auto", r, recordings[r].render)
     ELSE UNCHANGED << audioBlob, analyzing, analysisError, runs >>
  /\ UNCHANGED << user, recordingStatus, recordingDuration, results, model, savedTestId,
                  error, recorder, recordings, tests, service, applied >>

\* a click on Re-run Voice Screening
handleAnalyze ==
  /\ RerunEnabled
  /\ Cardinality({i \in 1..Len(runs) : runs[i].kind = "manual"}) < MaxReruns
  /\ StartAnalysis("manual", audioBlob, Render)
  /\ UNCHANGED << user, recordingStatus, recordingDuration, audioBlob, results, model,
                  savedTestId, error, recorder, analysisTimers, recordings, tests,
                  service, applied >>

\* the catch and finally blocks of a run
Fail(i, what) ==
  /\ analysisError' = what
  /\ predictionShown' = 0
  /\ featureVector' = 0
  /\ prescription' = 0
  /\ analyzing' = FALSE
  /\ runs' = [runs EXCEPT ![i] = [@ EXCEPT !.pc = "done", !.outcome = "error",
                                            !.savedTestId = 0]]

\* an extraction that always yields features
ExtractionResolved_always(blob) == TRUE

\* extractVoiceFeatures resolves for a voiced recording and rejects otherwise
ExtractionResolved(blob) == recordings[blob].voiced

\* await extractVoiceFeatures settles; on success predictVoiceSample is called
ExtractSettles(i) ==
  /\ runs[i].pc = "extracting"
  /\ IF ExtractionResolved(runs[i].blob)
     THEN /\ runs' = [runs EXCEPT ![i] = [@ EXCEPT !.pc = "predicting", !.extracted = TRUE,
                                                    !.predicted = TRUE]]
          /\ UNCHANGED << analysisError, results, analyzing >>
     ELSE Fail(i, "extraction")
  /\ UNCHANGED << user, recordingStatus, recordingDuration, audioBlob, model, savedTestId,
                  error, recorder, analysisTimers, recordings, tests, service, applied >>

\* await predictVoiceSample settles; on success the results are shown and
\* persistScreeningResult is called with the savedTestId of the run's render
PredictSettles(i) ==
  /\ runs[i].pc = "predicting"
  /\ ~modelLoading
  /\ IF modelError
     THEN Fail(i, "prediction")
     ELSE /\ featureVector' = runs[i].blob
          /\ prescription' = runs[i].blob
          /\ predictionShown' = runs[i].blob
          /\ IF user
             THEN /\ runs' = [runs EXCEPT ![i] = [@ EXCEPT !.pc = "saving",
                                                            !.outcome = "prediction"]]
                  /\ UNCHANGED << analyzing, analysisError >>
             ELSE /\ runs' = [runs EXCEPT ![i] = [@ EXCEPT !.pc = "done",
                                                            !.outcome = "prediction",
                                                            !.savedTestId = 0]]
                  /\ analyzing' = FALSE
                  /\ UNCHANGED analysisError
  /\ UNCHANGED << user, recordingStatus, recordingDuration, audioBlob, model, savedTestId,
                  error, recorder, analysisTimers, recordings, tests, service, applied >>

\* the update or insert of persistScreeningResult settles, and the run ends
SaveSettles(i, outcome) ==
  /\ runs[i].pc = "saving"
  /\ IF outcome = "ok"
     THEN /\ IF runs[i].savedTestId # 0
             THEN /\ tests' = [tests EXCEPT ![runs[i].savedTestId].holds = runs[i].blob]
                  /\ UNCHANGED savedTestId
             ELSE /\ tests' = Append(tests, [insertedFor |-> runs[i].blob,
                                             holds |-> runs[i].blob])
                  /\ savedTestId' = Len(tests) + 1
          /\ UNCHANGED analysisError
     ELSE /\ analysisError' = "database"
          /\ UNCHANGED << tests, savedTestId >>
  /\ runs' = [runs EXCEPT ![i] =
       [@ EXCEPT !.pc = "done", !.savedTestId = 0,
                 !.wrote = IF outcome # "ok" THEN "none"
                           ELSE IF runs[i].savedTestId # 0 THEN "update" ELSE "insert"]]
  /\ analyzing' = FALSE
  /\ UNCHANGED << user, recordingStatus, recordingDuration, audioBlob, results, model,
                  error, recorder, analysisTimers, recordings, service, applied >>

InitModal ==
  /\ corpus = <<>>
  /\ datasetPromise = 0
  /\ promises = [p \in Promises |-> NewPromise]
  /\ featureStats = Null
  /\ trainingSamples = Null
  /\ trainedMetadata = Null
  /\ calls = [c \in Calls |-> IdleCall]
  /\ objects = 0
  /\ resets = 0
  /\ epochCalls = 0
  /\ epochFetches = 0
  /\ epochInits = 0
  /\ applied = NotApplied
  /\ InitUi(BOOLEAN)

Timers ==
  \/ Tick
  \/ AutoStopFire
  \/ \E r \in Recordings : AnalysisTimerFire(r)

Settles ==
  \/ \E outcome \in {"ready", "failed"} : ModelLoaded(outcome)
  \/ \E r \in Recordings : MicrophoneGranted(r) \/ MicrophoneDenied(r)
  \/ \E r \in Recordings, voiced \in BOOLEAN : OnStop(r, voiced)
  \/ \E i \in 1..Len(runs) : ExtractSettles(i)
  \/ \E i \in 1..Len(runs) : PredictSettles(i)
  \/ \E i \in 1..Len(runs), outcome \in {"ok", "databaseError"} : SaveSettles(i, outcome)

Clicks ==
  \/ \E r \in Recordings : startRecording(r)
  \/ ClickStop
  \/ handleAnalyze

NextModal == Clicks \/ Timers \/ Settles

SpecModal == InitModal /\ [][NextModal]_vars

\* timers fire and pending promises and events settle; the user need not click
FairModal ==
  /\ WF_vars(Tick)
  /\ WF_vars(AutoStopFire)
  /\ \A r \in Recordings :
       /\ WF_vars(AnalysisTimerFire(r))
       /\ WF_vars(MicrophoneGranted(r) \/ MicrophoneDenied(r))
       /\ WF_vars(\E voiced \in BOOLEAN : OnStop(r, voiced))
  /\ WF_vars(\E outcome \in {"ready", "failed"} : ModelLoaded(outcome))
  /\ WF_vars(\E i \in 1..Len(runs) : ExtractSettles(i))
  /\ WF_vars(\E i \in 1..Len(runs) : PredictSettles(i))
  /\ WF_vars(\E i \in 1..Len(runs), outcome \in {"ok", "databaseError"} : SaveSettles(i, outcome))

SpecModalFair == InitModal /\ [][NextModal]_vars /\ FairModal

\* ============================================================== the claims

\* --- what a corpus text is, read off the text itself

IsHeaderRow(row) ==
  LET cells == Split(row, ",") IN \E i \in 1..Len(cells) : cells[i] = <<"class">>

IsBlank(row) == \A i \in 1..Len(row) : IsSpace(row[i])

\* rows: the rows of the text once trimmed; linesTrimmedOff: the lines the
\* trim removed from its front; lines: the lines of the text; headerAt: where
\* the header row is among the rows; lacking: the required columns the header
\* does not name; dataRows: the rows after the header that are not blank;
\* offending: those of them with another number of fields than the header
Analyse(text) ==
  LET rows == SplitLines(Trim(text))
      hasHeader == Trim(text) # <<>> /\ \E i \in 1..Len(rows) : IsHeaderRow(rows[i])
      headerAt ==
        IF hasHeader
        THEN CHOOSE i \in 1..Len(rows) :
               IsHeaderRow(rows[i]) /\ \A j \in 1..(i - 1) : ~IsHeaderRow(rows[j])
        ELSE Len(rows)
      headerCells == Split(rows[headerAt], ",")
      names == {Trim(headerCells[i]) : i \in 1..Len(headerCells)}
      dataRows == {i \in (headerAt + 1)..Len(rows) : ~IsBlank(rows[i])}
  IN [ blank |-> Trim(text) = <<>>,
       hasHeader |-> hasHeader,
       headerAt |-> headerAt,
       lines |-> Len(SplitLines(text)),
       linesTrimmedOff |-> Len(SplitLines(text)) - Len(SplitLines(TrimStart(text))),
       lacking |-> IF hasHeader THEN {key \in FeatureKey : <<key>> \notin names} ELSE {},
       dataRows |-> IF hasHeader THEN dataRows ELSE {},
       offending |-> IF hasHeader
                     THEN {i \in dataRows : Len(Split(rows[i], ",")) # Len(headerCells)}
                     ELSE {} ]

\* the header names every required column
CompleteHeader(text) == text.hasHeader /\ text.lacking = {}

\* the 1-based position in the corpus text of row i
LinePosition(text, i) == i + text.linesTrimmedOff

\* the response text of promise p went through parseCsvDataset
Parsed(p) == promises[p].parses > 0

DatasetUnavailable == {"FailedToLoad", "FetchRejected"}
EmptyDataset == {"EmptyCsv", "NoDataRows"}

\* --- C1
\* C1: between two resets the corpus is fetched at most once and each response
\* is parsed at most once, and all the calls of one epoch that wait for the
\* load wait for the same dataset promise, the one datasetPromise holds.
SingleFlightLoad ==
  /\ epochFetches <= 1
  /\ \A p \in Promises : promises[p].parses <= 1
  /\ \A c, d \in Calls :
       (calls[c].pc = "awaitLoad" /\ calls[d].pc = "awaitLoad"
          /\ calls[c].epoch = calls[d].epoch) => calls[c].p = calls[d].p
  /\ \A c \in Calls :
       (calls[c].pc = "awaitLoad" /\ calls[c].epoch = resets) => calls[c].p = datasetPromise

\* two calls of one epoch wait for one promise whose text was parsed
SingleFlightLoadWitness ==
  /\ calls[1].pc = "awaitLoad" /\ calls[2].pc = "awaitLoad"
  /\ calls[1].epoch = calls[2].epoch
  /\ calls[1].fetched /\ ~calls[2].fetched
  /\ Parsed(calls[2].p)

\* --- C2
\* C2: between two resets the statistics, the normalised samples and the
\* metadata are computed and assigned at most once.
OneInitialization == epochInits <= 1

\* --- C3
\* C3: the first call started after a reset reloads from source: it finds no
\* cached state and issues a new fetch.
ResetForcesReload ==
  \A c \in Calls :
    (calls[c].pc # "idle" /\ calls[c].epoch > 0 /\ calls[c].nth = 1)
      => (~calls[c].populated /\ calls[c].fetched)

\* --- C4
\* C4: every prediction normalises its query with the statistics object that
\* produced the reference samples it compares the query against.
SameStatsInstance ==
  \A c \in Calls : calls[c].normBy # 0 => calls[c].normBy = calls[c].refBy

\* --- C5
\* C5: at every suspension point featureStats, trainingSamples and
\* trainedMetadata are all null or all set (and then describe the same sample
\* list), and a prediction that computed distances found all three set.
PopulatedBeforeCompare ==
  /\ (featureStats = Null) = (trainingSamples = Null)
  /\ (trainingSamples = Null) = (trainedMetadata = Null)
  /\ CachePopulated =>
       /\ trainingSamples.by = featureStats.id
       /\ trainedMetadata.sampleCount = Len(trainingSamples.samples)
       /\ Parsed(trainingSamples.from)
  /\ \A c \in Calls : calls[c].normBy # 0 => calls[c].full

\* a prediction was made, after a reset emptied the cache before
PopulatedBeforeCompareWitness ==
  \E c \in Calls :
    calls[c].result.type = "prediction" /\ calls[c].full /\ calls[c].epoch > 0

\* --- C6
\* C6: a call that starts when the cache is populated changes neither
\* datasetPromise nor featureStats, trainingSamples, trainedMetadata, in none
\* of its steps, and causes no fetch, no parse and no initialisation.
PopulatedCacheFrame ==
  [][\A c \in Calls :
       (\/ CachePopulated /\ calls[c].pc = "idle" /\ calls'[c].pc # "idle"
        \/ calls[c].populated /\ calls'[c] # calls[c])
         => /\ UNCHANGED cache
            /\ UNCHANGED << promises, epochFetches, epochInits, objects >>]_vars

\* a prediction that started on a populated cache has finished, the cache
\* still holding the samples it read
PopulatedCacheFrameWitness ==
  \E c \in Calls :
    /\ calls[c].populated /\ calls[c].kind = "predict"
    /\ calls[c].result.type = "prediction"
    /\ CachePopulated /\ trainingSamples.by = calls[c].refBy

\* --- C7
\* C7 as stated: a prediction requested while no dataset has been loaded ends
\* with the ModelNotReady error.
PredictBeforeLoadNotReady ==
  \A c \in Calls :
    (calls[c].kind = "predict" /\ calls[c].pc = "done"
       /\ ~calls[c].loaded /\ ~calls[c].populated)
      => (calls[c].result.type = "error" /\ calls[c].result.error.type = "ModelNotReady")

\* C7, amended: a prediction requested while no dataset has been loaded
\* starts the load and waits for it; it returns a Prediction when the load
\* succeeds and fails with the load's error when it does not, and never with
\* ModelNotReady.
PredictBeforeLoadLoads ==
  \A c \in Calls :
    (calls[c].kind = "predict" /\ ~calls[c].loaded /\ ~calls[c].populated
       /\ calls[c].pc # "idle")
      => /\ calls[c].fetched
         /\ calls[c].pc = "done" =>
              /\ promises[1].state = "fulfilled" => calls[c].result.type = "prediction"
              /\ promises[1].state = "rejected" =>
                   /\ calls[c].result.type = "error"
                   /\ calls[c].result.error = promises[1].result.error
              /\ calls[c].result.error.type # "ModelNotReady"

\* such a prediction returned a Prediction
PredictBeforeLoadLoadsWitness ==
  \E c \in Calls :
    /\ calls[c].kind = "predict" /\ ~calls[c].loaded /\ ~calls[c].populated
    /\ calls[c].result.type = "prediction"
    /\ calls[c].result.value.k = Min(DefaultK, Len(parseCsvDataset(corpus).samples))

\* --- C8
\* C8: when the header of the corpus lacks a required feature column, parsing
\* fails with the MissingFeatureColumn error naming a column the header
\* lacks (the one, when it lacks one), the call fails with that error, and the
\* statistics, the samples and the metadata stay null.
MissingColumnFails ==
  LET text == Analyse(corpus) IN
  (text.hasHeader /\ text.lacking # {}) =>
    /\ \A p \in Promises : Parsed(p) =>
         /\ promises[p].state = "rejected"
         /\ promises[p].result.error.type = "MissingFeatureColumn"
         /\ promises[p].result.error.key \in text.lacking
    /\ featureStats = Null /\ trainingSamples = Null /\ trainedMetadata = Null
    /\ getVoiceModelMetadata = Null
    /\ \A c \in Calls : calls[c].pc = "done" =>
         /\ calls[c].result.type = "error"
         /\ calls[c].result.error = promises[1].result.error

\* a call failed with the error naming the one column the header lacks
MissingColumnFailsWitness ==
  /\ Parsed(1)
  /\ calls[1].pc = "done" /\ calls[1].result.error.type = "MissingFeatureColumn"
  /\ Analyse(corpus).hasHeader
  /\ {calls[1].result.error.key} = Analyse(corpus).lacking
  /\ getVoiceModelMetadata = Null

\* --- C9
\* C9: when a row after a complete header is not blank and has another number
\* of fields than the header, parsing fails with the MalformedRow error, no
\* samples come back, and the error names the 1-based line of the first such
\* row in the corpus text.
MalformedRowNamesItsLine ==
  \A p \in Promises : Parsed(p) =>
    LET text == Analyse(corpus) IN
    (CompleteHeader(text) /\ text.offending # {}) =>
      /\ promises[p].state = "rejected"
      /\ promises[p].result.samples = <<>>
      /\ promises[p].result.error.type = "MalformedRow"
      /\ \E i \in text.offending :
           /\ \A j \in text.offending : i <= j
           /\ promises[p].result.error.row = LinePosition(text, i)

Predicted == applied.op = "predictFromSamples" /\ Len(applied.samples) >= 1

\* the distance of two vectors that differ along the first axis only
AxisDistance(vectorA, vectorB) == Abs(vectorA[1] - vectorB[1])

ParkinsonsVotes(votes) == Cardinality({i \in 1..Len(votes) : votes[i].label = "Parkinsons"})
HealthyVotes(votes) == Cardinality({i \in 1..Len(votes) : votes[i].label = "Healthy"})

RECURSIVE DistanceSum(_)
DistanceSum(votes) ==
  IF votes = <<>> THEN 0 ELSE votes[1].distance + DistanceSum(Tail(votes))

\* the mean distance of the votes is above 10 (distances are in tenths)
MeanDistanceAbove10(votes) == DistanceSum(votes) > 100 * Len(votes)

\* --- C11
\* C11: for every integer k and every reference set of N >= 1 samples,
\* predictFromSamples does not fail, and the k it returns and the number of
\* its neighbour votes are both k clamped to 1..N.
EffectiveKClamped ==
  Predicted =>
    LET N == Len(applied.samples)
        clamped == IF applied.k < 1 THEN 1 ELSE IF applied.k > N THEN N ELSE applied.k
    IN /\ applied.result.ok
       /\ applied.result.prediction.k = clamped
       /\ Len(applied.result.prediction.neighbourVotes) = clamped

\* k = 1000 against the largest reference set used all of it, and k = 0 used one
EffectiveKClampedWitness ==
  /\ Predicted /\ applied.result.ok
  /\ \/ /\ applied.k = 1000 /\ Len(applied.samples) = MaxSamples
        /\ applied.result.prediction.k = MaxSamples
     \/ /\ applied.k = 0 /\ Len(applied.samples) = MaxSamples
        /\ applied.result.prediction.k = 1

\* --- C12
\* C12 as stated: whenever the neighbour votes hold as many Parkinsons as
\* Healthy labels, the predicted label is Parkinsons.
TieGoesToParkinsons ==
  Predicted =>
    LET votes == applied.result.prediction.neighbourVotes IN
    ParkinsonsVotes(votes) = HealthyVotes(votes)
      => applied.result.prediction.label = "Parkinsons"

\* C12, amended: when the neighbour votes are tied, the predicted label is
\* Parkinsons if their mean distance is at most 10, and Healthy if it is
\* above 10 (the tied probability 0.5 is damped to 0.15 before the threshold).
TieGoesToParkinsonsUnlessDamped ==
  Predicted =>
    LET votes == applied.result.prediction.neighbourVotes IN
    ParkinsonsVotes(votes) = HealthyVotes(votes)
      => applied.result.prediction.label =
           IF MeanDistanceAbove10(votes) THEN "Healthy" ELSE "Parkinsons"

\* the query halfway between a Parkinsons and a Healthy sample, k = 2
TieGoesToParkinsonsUnlessDampedWitness ==
  /\ Predicted /\ applied.k = 2 /\ Len(applied.samples) = 2
  /\ applied.samples[1].label # applied.samples[2].label
  /\ AxisDistance(applied.vector, applied.samples[1].vector)
       = AxisDistance(applied.vector, applied.samples[2].vector)
  /\ applied.samples[1].vector # applied.samples[2].vector
  /\ applied.result.prediction.label = "Parkinsons"

\* --- C13
\* C13: when the mean distance of the neighbour votes is above 10 the
\* probability is 0.3 times the fraction of Parkinsons votes, otherwise it is
\* that fraction; it is never above that fraction and lies in [0,1].
DampingExact ==
  Predicted =>
    LET prediction == applied.result.prediction
        probability == prediction.probabilityOfParkinsons
        parkinsons == ParkinsonsVotes(prediction.neighbourVotes)
    IN /\ probability.den > 0
       /\ IF MeanDistanceAbove10(prediction.neighbourVotes)
          THEN probability.num * 10 * prediction.k = 3 * parkinsons * probability.den
          ELSE probability.num * prediction.k = parkinsons * probability.den
       /\ probability.num * prediction.k <= parkinsons * probability.den
       /\ 0 <= probability.num /\ probability.num <= probability.den

\* two Parkinsons neighbours at 10 and 11, mean distance 10.5: probability 0.3
DampingExactWitness ==
  /\ Predicted
  /\ LET prediction == applied.result.prediction IN
     /\ prediction.k = 2
     /\ {prediction.neighbourVotes[i].distance : i \in 1..2} = {100, 110}
     /\ ParkinsonsVotes(prediction.neighbourVotes) = 2
     /\ prediction.probabilityOfParkinsons.num * 10 = 3 * prediction.probabilityOfParkinsons.den

\* --- C14
\* C14: the label of a prediction is Parkinsons exactly when its returned
\* probability is at least 0.5.
LabelFollowsProbability ==
  Predicted =>
    LET prediction == applied.result.prediction
        probability == prediction.probabilityOfParkinsons
    IN /\ prediction.label \in {"Parkinsons", "Healthy"}
       /\ (prediction.label = "Parkinsons") = (2 * probability.num >= probability.den)

\* every vote is Parkinsons and the damped probability makes the label Healthy
LabelFollowsProbabilityWitness ==
  /\ Predicted
  /\ LET prediction == applied.result.prediction IN
     /\ ParkinsonsVotes(prediction.neighbourVotes) = prediction.k
     /\ MeanDistanceAbove10(prediction.neighbourVotes)
     /\ prediction.label = "Healthy"

\* --- C15
\* C15: the neighbour votes are in order of distance, nearest first; each is
\* the label and the distance of one reference sample of its own; and every
\* reference sample that is not among them is at least as far as each of them.
NearestFirst ==
  Predicted =>
    LET votes == applied.result.prediction.neighbourVotes
        N == Len(applied.samples)
        distance(i) == AxisDistance(applied.vector, applied.samples[i].vector)
    IN /\ \A j \in 1..(Len(votes) - 1) : votes[j].distance <= votes[j + 1].distance
       /\ Len(votes) <= N
       /\ \E from \in [1..Len(votes) -> 1..N] :
            /\ \A i, j \in 1..Len(votes) : from[i] = from[j] => i = j
            /\ \A j \in 1..Len(votes) :
                 /\ votes[j].label = applied.samples[from[j]].label
                 /\ votes[j].distance = distance(from[j])
            /\ \A i \in 1..N : (\A j \in 1..Len(votes) : from[j] # i) =>
                 \A j \in 1..Len(votes) : distance(i) >= votes[j].distance

\* three samples given farthest first, k = 2: the votes are the last and the
\* second sample, in that order
NearestFirstWitness ==
  /\ Predicted /\ Len(applied.samples) = 3 /\ applied.k = 2
  /\ LET distance(i) == AxisDistance(applied.vector, applied.samples[i].vector)
         votes == applied.result.prediction.neighbourVotes
     IN /\ distance(1) > distance(2) /\ distance(2) > distance(3)
        /\ applied.samples[3].label # applied.samples[1].label
        /\ votes = << [label |-> applied.samples[3].label, distance |-> distance(3)],
                      [label |-> applied.samples[2].label, distance |-> distance(2)] >>

\* --- the model built from a dataset

Trained == applied.op = "ensureModel"

\* the samples but the one at index
AllBut(samples, index) ==
  [j \in 1..(Len(samples) - 1) |-> samples[IF j < index THEN j ELSE j + 1]]

\* the samples whose own label is the label predicted for them from the others
CorrectlyPredicted(samples, k) ==
  {index \in 1..Len(samples) :
     predictFromSamples(samples[index].vector, AllBut(samples, index), k).prediction.label
       = samples[index].label}

\* --- C16
\* C16: the accuracy is null for fewer than 2 samples; otherwise it is
\* correct/total, between 0 and 1, correct being the number of samples whose
\* own label is the label predicted for them from the other samples; and the
\* metadata holds that value for the k the model was initialised with.
AccuracyIsLeaveOneOut ==
  Trained =>
    LET samples == applied.trainingSamples
        metadata == applied.trainedMetadata
    IN /\ metadata.k = applied.k
       /\ metadata.sampleCount = Len(samples)
       /\ metadata.accuracy = leaveOneOutAccuracy(samples, applied.k)
       /\ IF Len(samples) < 2 THEN metadata.accuracy = Null
          ELSE /\ metadata.accuracy # Null
               /\ metadata.accuracy.den = Len(samples)
               /\ metadata.accuracy.num = Cardinality(CorrectlyPredicted(samples, applied.k))
               /\ 0 <= metadata.accuracy.num
               /\ metadata.accuracy.num <= metadata.accuracy.den

\* three samples of which some but not all are predicted correctly
AccuracyIsLeaveOneOutWitness ==
  /\ Trained /\ Len(applied.dataset) = 3
  /\ applied.trainedMetadata.accuracy # Null
  /\ applied.trainedMetadata.accuracy.num \in {1, 2}
  /\ applied.trainedMetadata.accuracy.den = 3

\* --- C17
\* C17: every standard deviation in the statistics is at least the floor 1e-6.
StdAtLeastFloor ==
  Trained => \A key \in FeatureKey : applied.featureStats[key].std >= StdFloor

\* --- the labels of a parsed corpus

ParsedLabels == applied.op = "parseCsvDataset"

\* the text of the cell is a number that is at least 0.5
AtLeastHalf(cell) == Trim(cell) \in { <<"0.5">>, <<"1">>, <<"2">>, <<"3">> }

\* the position of the last header column named class
ClassColumn(header) ==
  LET names == Split(header, ",") IN
  CHOOSE i \in 1..Len(names) :
    /\ Trim(names[i]) = <<"class">>
    /\ \A j \in (i + 1)..Len(names) : Trim(names[j]) # <<"class">>

\* --- C18
\* C18: every data row becomes a sample whose label is Parkinsons exactly when
\* the cell of the row under the last header column named class is a number
\* that is at least 0.5, and Healthy otherwise.
LabelFromLastClassColumn ==
  ParsedLabels =>
    LET lines == Split(applied.csvText, "\n")
        samples == applied.result.samples
    IN /\ applied.result.ok
       /\ Len(samples) = Len(lines) - 1
       /\ \A r \in 1..Len(samples) :
            samples[r].label =
              IF AtLeastHalf(Split(lines[r + 1], ",")[ClassColumn(lines[1])])
              THEN "Parkinsons" ELSE "Healthy"

\* two columns named class: the first cell is 1, the last is not a number, and
\* the row is Healthy
LabelFromLastClassColumnWitness ==
  /\ ParsedLabels /\ applied.result.ok
  /\ LET lines == Split(applied.csvText, "\n")
         cells == Split(lines[2], ",")
     IN /\ ClassColumn(lines[1]) = NumFeatures + 2
        /\ cells[1] = <<"1">> /\ cells[NumFeatures + 2] = <<"x">>
        /\ applied.result.samples[1].label = "Healthy"

\* --- the conditioned signal

Conditioned == applied.op = "condition"

\* the positions of the samples at or above the threshold
Loud(signal) == {i \in 1..Len(signal) : Abs(signal[i]) >= SilenceThreshold}

Least(S) == CHOOSE x \in S : \A y \in S : x <= y
Greatest(S) == CHOOSE x \in S : \A y \in S : x >= y

\* floor(15 x sampleRate), the rate in tenths of a hertz
Cap == (15 * applied.sampleRate) \div 10

\* --- C19
\* C19: the conditioned signal is no longer than the input and no longer than
\* floor(15 x sampleRate); limitDuration returns a signal within the cap as it
\* is and the first floor(15 x sampleRate) samples of a longer one.
ConditionedLength ==
  Conditioned =>
    /\ Len(applied.mono) = applied.buffer.length
    /\ Len(applied.trimmed) <= Len(applied.mono)
    /\ Len(applied.limited) >= 0
    /\ Len(applied.limited) <= applied.buffer.length
    /\ Len(applied.limited) <= Cap
    /\ applied.limited =
         IF Len(applied.trimmed) <= Cap THEN applied.trimmed
         ELSE [i \in 1..Cap |-> applied.trimmed[i]]

\* a two-channel buffer lost silence at an end and was then cut to the cap
ConditionedLengthWitness ==
  /\ Conditioned /\ applied.buffer.numberOfChannels = 2
  /\ Len(applied.trimmed) < Len(applied.mono)
  /\ Len(applied.limited) < Len(applied.trimmed)
  /\ Len(applied.limited) = Cap

\* --- C20
\* C20: when a sample of the signal is at or above the threshold, trimSilence
\* returns the span from the first such sample to the last, and only when
\* there is none does it return the signal as it is.
TrimToLoudSpan ==
  Conditioned =>
    LET signal == applied.mono IN
    applied.trimmed =
      IF Loud(signal) # {}
      THEN [i \in 1..(Greatest(Loud(signal)) - Least(Loud(signal)) + 1) |->
              signal[Least(Loud(signal)) + i - 1]]
      ELSE signal

\* --- C28
\* C28: whenever the mean distance of the neighbour votes is above 10, the
\* returned probability is at most 0.3 and the label is Healthy, whatever the
\* votes are.
MismatchMeansHealthy ==
  Predicted =>
    LET prediction == applied.result.prediction
        probability == prediction.probabilityOfParkinsons
    IN MeanDistanceAbove10(prediction.neighbourVotes) =>
         /\ 10 * probability.num <= 3 * probability.den
         /\ prediction.label = "Healthy"

\* the single nearest neighbour is a Parkinsons sample 11 away: probability
\* 0.3, label Healthy
MismatchMeansHealthyWitness ==
  /\ Predicted
  /\ LET prediction == applied.result.prediction IN
     /\ prediction.k = 1
     /\ prediction.neighbourVotes = << [label |-> "Parkinsons", distance |-> 110] >>
     /\ 10 * prediction.probabilityOfParkinsons.num = 3 * prediction.probabilityOfParkinsons.den
     /\ prediction.label = "Healthy"

\* --- C25
Evaluated == applied.op = "leaveOneOutAccuracy" /\ Len(applied.samples) >= 2

\* the label a live prediction gives the vector from the remaining samples:
\* k clamped to 1..N-1, the vote among the nearest, the damping, the threshold
LiveLabel(vector, remaining, k) ==
  LET N == Len(remaining)
      clamped == IF k < 1 THEN 1 ELSE IF k > N THEN N ELSE k
      votes == predictFromSamples(vector, remaining, clamped).prediction.neighbourVotes
      parkinsons == ParkinsonsVotes(votes)
      damped == MeanDistanceAbove10(votes)
  IN IF (IF damped THEN 2 * 3 * parkinsons >= 10 * clamped ELSE 2 * parkinsons >= clamped)
     THEN "Parkinsons" ELSE "Healthy"

\* the number of samples whose label a live prediction from the others gives
LiveCorrect(samples, k) ==
  Cardinality({index \in 1..Len(samples) :
    LiveLabel(samples[index].vector, AllBut(samples, index), k) = samples[index].label})

\* C25, the service: leaveOneOutAccuracy counts the samples that a live
\* prediction from the other N-1 samples labels correctly, and the sample
\* list is the same afterwards.
ServiceEvaluatesLikeLive ==
  Evaluated =>
    /\ applied.accuracy = [num |-> LiveCorrect(applied.samples, applied.k),
                           den |-> Len(applied.samples)]
    /\ applied.samplesAfter = applied.samples

\* a Parkinsons sample whose only neighbours are Parkinsons samples more than
\* 10 away is counted as wrong, as a live prediction would label it Healthy
ServiceEvaluatesLikeLiveWitness ==
  /\ Evaluated /\ Len(applied.samples) = 2 /\ applied.k = 1
  /\ \A i \in 1..2 : applied.samples[i].label = "Parkinsons"
  /\ AxisDistance(applied.samples[1].vector, applied.samples[2].vector) > 100
  /\ applied.accuracy = [num |-> 0, den |-> 2]

\* C25: every leave-one-out evaluation of the repository, the service's and
\* the accuracy script's for the values of k it runs, counts the samples that
\* a live prediction from the other N-1 samples labels correctly, and leaves
\* the sample list as it was.
EvaluationLikeLive ==
  Evaluated =>
    /\ applied.accuracy = [num |-> LiveCorrect(applied.samples, applied.k),
                           den |-> Len(applied.samples)]
    /\ applied.k \in ScriptK =>
         applied.scriptAccuracy = [num |-> LiveCorrect(applied.samples, applied.k),
                                   den |-> Len(applied.samples)]
    /\ applied.samplesAfter = applied.samples

\* --- the feature extraction applied on its own

Extracted == applied.op = "computeVoiceFeaturesFromSignal"

\* the frames a waveform of the length holds: none below 2048 samples, then
\* one more for every 512 samples
FramesHeld(length) ==
  IF length < 2048 THEN 0 ELSE (length - 2048) \div 512 + 1

\* what analyseFrame returned for the frame at the position
Analysis(position) ==
  analyseFrame(applied.samples.frames[position], applied.sampleRate,
               MinLag(applied.sampleRate), MaxLag(applied.sampleRate))

\* the positions of the accepted frames: a frequency, and a correlation of at
\* least 0.3
AcceptedFrames ==
  {position \in 1..FramesHeld(applied.samples.length) :
     Analysis(position).frequency # Null /\ Analysis(position).correlation >= 30}

\* the position of the nth accepted frame
NthAccepted(nth) ==
  CHOOSE position \in AcceptedFrames :
    Cardinality({earlier \in AcceptedFrames : earlier < position}) = nth - 1

\* --- C21
\* C21: computeVoiceFeaturesFromSignal returns features exactly when at least
\* 5 frames were accepted, and otherwise (so for an all-zero waveform and for a
\* waveform shorter than 4096 samples) fails with InsufficientVoicedSignal and
\* no features; its four sequences hold one entry per accepted frame, in the
\* order of the frames.
FeaturesIffFiveFrames ==
  Extracted =>
    LET result == applied.result
        count == Cardinality(AcceptedFrames)
    IN /\ Len(applied.samples.frames) = FramesHeld(applied.samples.length)
       /\ IF count >= 5
          THEN result.error = NoError /\ result.features # Null
          ELSE result.error.type = "InsufficientVoicedSignal" /\ result.features = Null
       /\ (\A position \in 1..Len(applied.samples.frames) :
             applied.samples.frames[position] = "silent") => result.features = Null
       /\ applied.samples.length < 2048 + 4 * 512 => result.features = Null
       /\ Len(result.pitches) = count /\ Len(result.periods) = count
       /\ Len(result.amplitudes) = count /\ Len(result.correlations) = count
       /\ \A nth \in 1..count :
            LET analysis == Analysis(NthAccepted(nth)) IN
            /\ result.pitches[nth] = analysis.frequency
            /\ result.periods[nth].num * analysis.frequency.num
                 = result.periods[nth].den * analysis.frequency.den
            /\ result.amplitudes[nth] = analysis.rms
            /\ result.correlations[nth] = analysis.correlation

\* six frames of which the third is silent and the others are voiced, with
\* both lags: features, and five entries in the order of the frames
FeaturesIffFiveFramesWitness ==
  /\ Extracted /\ Len(applied.samples.frames) = 6
  /\ applied.samples.frames[3] = "silent"
  /\ applied.samples.frames[1] = "voicedMinLag"
  /\ applied.samples.frames[2] = "voicedMaxLag"
  /\ AcceptedFrames = {1, 2, 4, 5, 6}
  /\ applied.result.features # Null
  /\ Len(applied.result.pitches) = 5
  /\ applied.result.pitches[1] # applied.result.pitches[2]

\* --- C26
ApqApplied == applied.op = "computeApq"

\* the sum over the windows starting at 1..count of |w * centre - window total|
RECURSIVE WindowDeviations(_, _, _)
WindowDeviations(amplitudes, windowSize, count) ==
  IF count <= 0 THEN 0
  ELSE Abs(windowSize * amplitudes[count + windowSize \div 2]
           - SumSeq(SubSeq(amplitudes, count, count + windowSize - 1)))
       + WindowDeviations(amplitudes, windowSize, count - 1)

\* C26: computeApq is 0 when the sequence is shorter than the window or its
\* mean is 0; otherwise it is the mean of |centre - window mean| over the
\* n - w + 1 windows of the sequence, divided by the mean amplitude, and every
\* index read lies in the sequence. The DDA shimmer of a feature vector is 3
\* times its APQ3, and its APQ11 is 0 for 5 to 10 accepted frames.
ApqOverCentredWindows ==
  /\ ApqApplied =>
       LET amplitudes == applied.amplitudes
           w == applied.windowSize
           n == Len(amplitudes)
           total == SumSeq(amplitudes)
       IN /\ applied.reads \subseteq 1..n
          /\ IF n < w \/ total = 0 THEN applied.result = Zero
             ELSE /\ ~applied.result.nan
                  /\ applied.result.num = n * WindowDeviations(amplitudes, w, n - w + 1)
                  /\ applied.result.den = w * (n - w + 1) * total
  /\ (Extracted /\ applied.result.features # Null) =>
       LET features == applied.result.features
           amplitudes == applied.result.amplitudes
       IN /\ ~features.ddaShimmer.nan /\ ~features.apq3Shimmer.nan
          /\ features.ddaShimmer.num * features.apq3Shimmer.den
               = 3 * features.apq3Shimmer.num * features.ddaShimmer.den
          /\ features.apq3Shimmer.num * 3 * (Len(amplitudes) - 2) * SumSeq(amplitudes)
               = 100 * Len(amplitudes) * WindowDeviations(amplitudes, 3, Len(amplitudes) - 2)
                 * features.apq3Shimmer.den
          /\ Len(amplitudes) \in 5..10 => features.apq11Shimmer.num = 0

\* twelve amplitudes and a window of 11: two windows, a quotient above 0
ApqOverCentredWindowsWitness ==
  /\ ApqApplied /\ Len(applied.amplitudes) = 12 /\ applied.windowSize = 11
  /\ applied.reads = 1..12
  /\ applied.result.num > 0
  /\ applied.result.den = 11 * 2 * SumSeq(applied.amplitudes)

\* --- C27
\* the call starts in this step while datasetPromise holds a rejected promise
StartsAfterFailure(c) ==
  /\ calls[c].pc = "idle" /\ calls'[c].pc # "idle"
  /\ datasetPromise # 0
  /\ promises[datasetPromise].state = "rejected"

\* C27: a call that starts while datasetPromise holds a rejected promise
\* issues no fetch and waits on that promise; a call waiting on a rejected
\* promise ends with the error the promise was rejected with; and
\* datasetPromise, once set, changes only in a reset.
FailedLoadIsSticky ==
  [][ /\ \A c \in DOMAIN calls :
           /\ StartsAfterFailure(c) =>
                /\ calls'[c].pc = "awaitLoad"
                /\ calls'[c].p = datasetPromise
                /\ promises' = promises
                /\ epochFetches' = epochFetches
           /\ (/\ calls[c].pc = "awaitLoad" /\ calls'[c].pc = "done"
               /\ promises[calls[c].p].state = "rejected") =>
                /\ calls'[c].result.type = "error"
                /\ calls'[c].result.error = promises[calls[c].p].result.error
      /\ (datasetPromise # 0 /\ datasetPromise' # datasetPromise) =>
           resets' = resets + 1 /\ datasetPromise' = 0
    ]_vars

\* --- the voice capture modal

\* the runs that have not ended
InFlight(blob) == {i \in 1..Len(runs) : runs[i].blob = blob /\ runs[i].pc # "done"}

\* the rows inserted for the recording
RowsInsertedFor(blob) == {id \in 1..Len(tests) : tests[id].insertedFor = blob}

\* --- C22
\* C22: a run calls predictVoiceSample only once extractVoiceFeatures has
\* resolved with the features of its recording; a run whose extraction failed
\* has made no prediction and written nothing, and in the step in which it
\* fails the prediction, the feature vector and the prescription are cleared
\* and the error is set.
PredictAfterExtract ==
  [][ /\ \A i \in 1..Len(runs') :
           /\ runs'[i].predicted =>
                runs'[i].extracted /\ recordings'[runs'[i].blob].voiced
           /\ runs'[i].pc \in {"predicting", "saving"} => runs'[i].extracted
      /\ \A i \in 1..Min(Len(runs), Len(runs')) :
           (runs[i].pc = "extracting" /\ runs'[i].pc = "done") =>
             /\ ~recordings[runs[i].blob].voiced
             /\ ~runs'[i].predicted /\ runs'[i].wrote = "none"
             /\ runs'[i].outcome = "error"
             /\ tests' = tests /\ savedTestId' = savedTestId
             /\ predictionShown' = 0 /\ featureVector' = 0 /\ prescription' = 0
             /\ analysisError' = "extraction"
    ]_vars

\* the second recording is not voiced: its run ended in the extraction error
\* with everything cleared, the first recording's result having been saved
PredictAfterExtractWitness ==
  /\ Len(tests) = 1 /\ tests[1].insertedFor = 1
  /\ Len(runs) = 1 /\ runs[1].blob = 2 /\ runs[1].pc = "done"
  /\ runs[1].outcome = "error" /\ ~runs[1].predicted
  /\ analysisError = "extraction"
  /\ predictionShown = 0 /\ featureVector = 0 /\ prescription = 0

\* --- C23
\* C23: a recording in progress is eventually stopped, by the user or by the
\* auto-stop timer: recordingStatus 'recording' leads to 'recorded'.
AutoStopStops == (recordingStatus = "recording") ~> (recordingStatus = "recorded")

\* --- C24
\* the automatic run of the recording has ended, with a prediction or an error
AutoAnalysed(r) ==
  \E i \in 1..Len(runs) :
    /\ runs[i].kind = "auto" /\ runs[i].blob = r /\ runs[i].pc = "done"
    /\ runs[i].outcome \in {"prediction", "error"}

\* C24: when a recording has just stopped (its 500 ms timeout is pending)
\* and the model had not failed to load, the automatic run of that recording
\* eventually has ended with a prediction or an error, and analyzing is false.
AutoAnalysisEnds ==
  \A r \in Recordings :
    (r \in analysisTimers /\ ~recordings[r].failedAtStop)
      ~> (AutoAnalysed(r) /\ ~analyzing)

\* the automatic run of a recording ended with a prediction, no click on
\* Re-run Voice Screening having been made
AutoAnalysisEndsWitness ==
  /\ Len(runs) = 1 /\ runs[1].kind = "auto" /\ runs[1].pc = "done"
  /\ runs[1].outcome = "prediction" /\ predictionShown = 1 /\ ~analyzing
  /\ recordings[1].stage = "stopped" /\ ~recordings[1].failedAtStop

\* --- C29
\* C29: at most one analysis run of a recording is in flight at any time, and
\* at most one row is inserted for a recording.
OneRunOneRow ==
  \A r \in Recordings :
    /\ Cardinality(InFlight(r)) <= 1
    /\ Cardinality(RowsInsertedFor(r)) <= 1

\* --- C30
\* C30: every row holds the result of the recording it was inserted for, and
\* an automatic run that saved its result inserted a row for its own
\* recording.
OwnRowPerRecording ==
  /\ \A id \in 1..Len(tests) : tests[id].holds = tests[id].insertedFor
  /\ \A i \in 1..Len(runs) :
       (runs[i].kind = "auto" /\ runs[i].wrote # "none") =>
         runs[i].wrote = "insert" /\ RowsInsertedFor(runs[i].blob) # {}

====
